---- MODULE Spec2Model ----
(***************************************************************************)
(* Verification model of the opencode-web chat client:                     *)
(*   - EventStreamService  (services/eventStream.ts)                       *)
(*   - useSessionStore     (stores/sessionStore.ts)                        *)
(*   - useMessageStore     (stores/messageStore.ts)                        *)
(*   - useEventStream / useMessageHandling / useChatSession (hooks)        *)
(* Texts are sequences of tokens; the characters the code inspects ('.')   *)
(* are always tokens of their own, so that String.includes('...') is a     *)
(* contiguous-subsequence test.                                            *)
(***************************************************************************)
EXTENDS Integers, Sequences, FiniteSets, TLC

VARIABLES
    \* ---- EventStreamService fields -------------------------------------
    eventSource,        \* "null", or the readyState of the current EventSource
    liveSources,        \* EventSource objects created and not yet closed
    listeners,          \* event type -> sequence of callbacks
    reconnectAttempts,  \* private reconnectAttempts
    timers,             \* pending setTimeout(connect, delay): sequence of delays
    \* ---- history of the reconnection logic -----------------------------
    schedLog,           \* delays scheduled since the last onopen / owner call
    failures,           \* transport errors since the last onopen / owner call
    \* ---- callers and callbacks of the service -------------------------
    unsubs,             \* functions returned by subscribe() that a caller
                        \* kept; called: the caller has invoked it
    delivered,          \* the last onmessage: its frame, the callbacks it
                        \* invoked, whether an exception left handleEvent
                        \* (escaped) or the handler itself (thrown)
    \* ---- useMessageStore ----------------------------------------------
    messages,           \* the transcript: sequence of ChatMessage
    lastStatusMessage,  \* the de-duplication marker
    now,                \* Date.now(), one tick per transcript-changing handler
    statusLog,          \* history: texts appended by addStatusMessage, and
                        \* the resets of the marker between them
    \* ---- useMessageStoreV2 --------------------------------------------
    v2Messages,         \* messages: sequence of {info, parts}
    droppedFor,         \* history: the message ids of the parts that
                        \* handlePartUpdated found no message for
    \* ---- the helper functions called directly ------------------------
    call,               \* the last call: the function, its arguments and
                        \* the value it returned
    \* ---- useSessionStore ----------------------------------------------
    sessionId,          \* "null" or the id returned by createSession
    isInitializing,
    error,              \* <<>> (null) or the error text
    isIdle,
    creating,           \* createSession calls in flight; TRUE marks a call
                        \* that was in flight when clearSession ran
    staleSeen,          \* history: clearSession ran while a call was in flight
    \* ---- useEventStream / useMessageHandling / useChatSession ----------
    mounted,            \* the mount effects have run
    hasReceivedFirstEvent,
    currentMessageMetadata,  \* <<>> (undefined) or <<metadata>>
    isLoading,
    metaFresh,          \* setCurrentMessageMetadata was called since the
                        \* last render (a new object, whatever its content)
    rendered,           \* the values the closures of the last render hold
    sends,              \* sendMessage calls in flight
    lastOp              \* history: the last controller operation

esVars == <<eventSource, liveSources, listeners, reconnectAttempts, timers,
            schedLog, failures>>

msgVars == <<messages, lastStatusMessage, now, statusLog>>

sessVars == <<sessionId, isInitializing, error, isIdle, creating, staleSeen>>

hookVars == <<mounted, hasReceivedFirstEvent, currentMessageMetadata,
              isLoading, metaFresh, rendered, sends>>

ctlVars == <<sessVars, hookVars, lastOp>>

subVars == <<unsubs, delivered>>

v2Vars == <<v2Messages, droppedFor>>

fnVars == <<call>>

vars == <<esVars, subVars, msgVars, ctlVars, v2Vars, fnVars>>

\* ------------------------------------------------------------------------
\* Bounds of the model
\* ------------------------------------------------------------------------
MaxTimers == 3       \* reconnect timers pending at the same time
MaxListeners == 2    \* callbacks registered at the same time
MaxFailures == 6     \* transport errors counted since the last open
MaxClock == 3        \* ticks of the clock, i.e. transcript-changing handlers
MaxCreating == 3     \* createSession calls in flight at the same time
MaxUnsubs == 2      \* functions returned by subscribe() that are kept
MaxV2Messages == 2   \* entries of the messages list of useMessageStoreV2
MaxParts == 3        \* parts of a message handed to a helper function
MaxPath == 4         \* characters of a file path handed to getRelativePath
MaxTodos == 3        \* items of a todo list handed to getTodoPhase
MaxSends == 2        \* sendMessage calls in flight at the same time

\* ------------------------------------------------------------------------
\* EventStreamService
\* ------------------------------------------------------------------------
maxReconnectAttempts == 5
reconnectDelay == 1000

EventTypes == {"message.updated", "message.part.updated",
               "session.error", "session.idle"}
Callbacks == {"cb1", "cb2"}
SessionIds == {"s1", "s2"}
MessageIds == {<<"m1">>, <<"m2">>}

RECURSIVE Pow2(_)
\* Math.pow(2, n)
Pow2(n) == IF n <= 0 THEN 1 ELSE 2 * Pow2(n - 1)

NoListeners == [t \in EventTypes |-> <<>>]

RECURSIVE SumLen(_, _)
SumLen(lst, ts) ==
    IF ts = {} THEN 0
    ELSE LET t == CHOOSE x \in ts : TRUE
         IN Len(lst[t]) + SumLen(lst, ts \ {t})

\* number of registrations in the listener registry
NumListeners(lst) == SumLen(lst, EventTypes)

\* an EventSource that is CONNECTING or OPEN
IsLive(es) == es \in {"connecting", "open"}

\* a disconnect() that neither closes nor forgets the EventSource
DisconnectFields_NoClose(es, live) ==
    [eventSource |-> es,
     liveSources |-> live,
     listeners |-> NoListeners,
     reconnectAttempts |-> 0]

\* disconnect(): the service fields it leaves
DisconnectFields(es, live) ==
    [eventSource |-> "null",
     liveSources |-> IF IsLive(es) THEN live - 1 ELSE live,
     listeners |-> NoListeners,
     reconnectAttempts |-> 0]

\* a connect() that opens a new EventSource without looking at the old one
ConnectFields_NoDisconnect(es, live, lst, att) ==
    [eventSource |-> "connecting", liveSources |-> live + 1,
     listeners |-> lst, reconnectAttempts |-> att]

\* connect(): disconnects when a source exists, then opens a new EventSource
ConnectFields(es, live, lst, att) ==
    LET d == IF es # "null"
             THEN DisconnectFields(es, live)
             ELSE [eventSource |-> es, liveSources |-> live,
                   listeners |-> lst, reconnectAttempts |-> att]
    IN [d EXCEPT !.eventSource = "connecting",
                 !.liveSources = d.liveSources + 1]

\* connect() called by the owner of the service
Connect ==
    /\ LET c == ConnectFields(eventSource, liveSources, listeners,
                              reconnectAttempts)
       IN /\ eventSource' = c.eventSource
          /\ liveSources' = c.liveSources
          /\ listeners' = c.listeners
          /\ reconnectAttempts' = c.reconnectAttempts
    /\ schedLog' = <<>>
    /\ failures' = 0
    /\ UNCHANGED <<timers, msgVars, ctlVars>>
    /\ UNCHANGED <<subVars, v2Vars, fnVars>>

\* disconnect() called by the owner of the service
Disconnect ==
    /\ LET d == DisconnectFields(eventSource, liveSources)
       IN /\ eventSource' = d.eventSource
          /\ liveSources' = d.liveSources
          /\ listeners' = d.listeners
          /\ reconnectAttempts' = d.reconnectAttempts
    /\ schedLog' = <<>>
    /\ failures' = 0
    /\ UNCHANGED <<timers, msgVars, ctlVars>>
    /\ UNCHANGED <<subVars, v2Vars, fnVars>>

\* subscribe(eventType, callback)
Subscribe(t, cb) ==
    /\ NumListeners(listeners) < MaxListeners
    /\ listeners' = [listeners EXCEPT ![t] = Append(@, cb)]
    /\ UNCHANGED <<eventSource, liveSources, reconnectAttempts, timers,
                   schedLog, failures, msgVars, ctlVars>>
    /\ UNCHANGED <<subVars, v2Vars, fnVars>>

\* eventSource.onopen
OnOpen ==
    /\ eventSource = "connecting"
    /\ eventSource' = "open"
    /\ reconnectAttempts' = 0
    /\ schedLog' = <<>>
    /\ failures' = 0
    /\ UNCHANGED <<liveSources, listeners, timers, msgVars, ctlVars>>
    /\ UNCHANGED <<subVars, v2Vars, fnVars>>

\* handleReconnect(): the fields it changes
HandleReconnectFields(att, tm) ==
    IF att >= maxReconnectAttempts
    THEN [reconnectAttempts |-> att, timers |-> tm, scheduled |-> FALSE,
          delay |-> 0]
    ELSE [reconnectAttempts |-> att + 1,
          timers |-> Append(tm, reconnectDelay * Pow2((att + 1) - 1)),
          scheduled |-> TRUE,
          delay |-> reconnectDelay * Pow2((att + 1) - 1)]

\* eventSource.onerror: the browser either retries on its own (the source
\* goes back to CONNECTING) or gives up (CLOSED); both fire the handler.
OnError(next) ==
    /\ IsLive(eventSource)
    /\ failures < MaxFailures
    /\ reconnectAttempts < maxReconnectAttempts => Len(timers) < MaxTimers
    /\ eventSource' = next
    /\ liveSources' = IF next = "closed" THEN liveSources - 1 ELSE liveSources
    /\ LET h == HandleReconnectFields(reconnectAttempts, timers)
       IN /\ reconnectAttempts' = h.reconnectAttempts
          /\ timers' = h.timers
          /\ schedLog' = IF h.scheduled THEN Append(schedLog, h.delay)
                         ELSE schedLog
    /\ failures' = failures + 1
    /\ UNCHANGED <<listeners, msgVars, ctlVars>>
    /\ UNCHANGED <<subVars, v2Vars, fnVars>>

RemoveAt(s, i) == SubSeq(s, 1, i - 1) \o SubSeq(s, i + 1, Len(s))

\* A timer may fire once every timer set before it with a delay that is not
\* longer has fired.
CanFire(i) ==
    /\ i \in 1..Len(timers)
    /\ \A j \in 1..(i - 1) : timers[j] > timers[i]

\* the setTimeout callback of handleReconnect: this.connect()
TimerFire(i) ==
    /\ CanFire(i)
    /\ LET c == ConnectFields(eventSource, liveSources, listeners,
                              reconnectAttempts)
       IN /\ eventSource' = c.eventSource
          /\ liveSources' = c.liveSources
          /\ listeners' = c.listeners
          /\ reconnectAttempts' = c.reconnectAttempts
    /\ timers' = RemoveAt(timers, i)
    /\ UNCHANGED <<schedLog, failures, msgVars, ctlVars>>
    /\ UNCHANGED <<subVars, v2Vars, fnVars>>

InitES ==
    /\ eventSource = "null"
    /\ liveSources = 0
    /\ listeners = NoListeners
    /\ reconnectAttempts = 0
    /\ timers = <<>>
    /\ schedLog = <<>>
    /\ failures = 0
    /\ unsubs = <<>>
    /\ delivered = [frame |-> <<>>, calls |-> <<>>, escaped |-> FALSE,
                    thrown |-> FALSE]

\* ------------------------------------------------------------------------
\* Subscriptions and dispatch
\* ------------------------------------------------------------------------
\* callbacks.indexOf(cb): 0 stands for -1
RECURSIVE IndexOf(_, _)
IndexOf(cbs, cb) ==
    IF cbs = <<>> THEN 0
    ELSE IF Head(cbs) = cb THEN 1
    ELSE LET k == IndexOf(Tail(cbs), cb) IN IF k = 0 THEN 0 ELSE k + 1

\* the function returned by subscribe(): the listeners it leaves
UnsubscribeFields(lst, t, cb) ==
    LET index == IndexOf(lst[t], cb)
    IN IF index > 0 THEN [lst EXCEPT ![t] = RemoveAt(@, index)] ELSE lst

\* subscribe(eventType, callback) by a caller that keeps the returned function
SubscribeKept(t, cb) ==
    /\ NumListeners(listeners) < MaxListeners
    /\ Len(unsubs) < MaxUnsubs
    /\ listeners' = [listeners EXCEPT ![t] = Append(@, cb)]
    /\ unsubs' = Append(unsubs,
                        [eventType |-> t, callback |-> cb, called |-> FALSE])
    /\ UNCHANGED <<eventSource, liveSources, reconnectAttempts, timers,
                   schedLog, failures, delivered, msgVars, ctlVars, v2Vars, fnVars>>

\* the caller invokes the k-th function it kept
Unsubscribe(k) ==
    /\ k \in 1..Len(unsubs)
    /\ listeners' = UnsubscribeFields(listeners, unsubs[k].eventType,
                                      unsubs[k].callback)
    /\ unsubs' = [unsubs EXCEPT ![k].called = TRUE]
    /\ UNCHANGED <<eventSource, liveSources, reconnectAttempts, timers,
                   schedLog, failures, delivered, msgVars, ctlVars, v2Vars, fnVars>>

\* callbacks that throw when invoked
Throwing == {"cb2"}

\* event.data of a frame, as tokens: a JSON object {type, properties}, a
\* truncated object, the JSON literal null, or nothing
FrameTypes == {"session.idle", "session.error"}

Frames == {<<"{", t, "p1", "}">> : t \in FrameTypes}
          \cup {<<"{", t>> : t \in FrameTypes}
          \cup {<<"null">>, <<>>}

\* JSON.parse(event.data): <<>> when it throws, else <<value>>
JsonParse(data) ==
    IF Len(data) = 4 /\ data[1] = "{" /\ data[4] = "}"
    THEN <<[kind |-> "object", type |-> data[2], properties |-> data[3]]>>
    ELSE IF data = <<"null">>
    THEN <<[kind |-> "null", type |-> "", properties |-> ""]>>
    ELSE <<>>

\* a forEach without the try/catch around the callback: the first callback
\* that throws ends the loop
HandleEvent_NoCatch(cbs, properties) ==
    LET throwers == {i \in 1..Len(cbs) : cbs[i] \in Throwing}
        last == IF throwers = {} THEN Len(cbs)
                ELSE CHOOSE i \in throwers : \A j \in throwers : i <= j
    IN [calls |-> [i \in 1..last |->
                      [callback |-> cbs[i], data |-> properties]],
        escaped |-> throwers # {}]

\* handleEvent for the callbacks of the type of the event: forEach invokes
\* each callback inside its own try/catch
HandleEvent(cbs, properties) ==
    [calls |-> [i \in 1..Len(cbs) |->
                   [callback |-> cbs[i], data |-> properties]],
     escaped |-> FALSE]

\* an onmessage without its try/catch
OnMessageFields_NoCatch(lst, data) ==
    LET parsed == JsonParse(data)
    IN IF parsed = <<>> \/ parsed[1].kind = "null"
       THEN [frame |-> data, calls |-> <<>>, escaped |-> FALSE,
             thrown |-> TRUE]
       ELSE LET h == HandleEvent(lst[parsed[1].type], parsed[1].properties)
            IN [frame |-> data, calls |-> h.calls, escaped |-> h.escaped,
                thrown |-> h.escaped]

\* eventSource.onmessage: parse, then handleEvent; whatever is thrown
\* inside (by JSON.parse, or by reading data.type of null) is caught
OnMessageFields(lst, data) ==
    LET parsed == JsonParse(data)
    IN IF parsed = <<>> \/ parsed[1].kind = "null"
       THEN [frame |-> data, calls |-> <<>>, escaped |-> FALSE,
             thrown |-> FALSE]
       ELSE LET h == HandleEvent(lst[parsed[1].type], parsed[1].properties)
            IN [frame |-> data, calls |-> h.calls, escaped |-> h.escaped,
                thrown |-> FALSE]

\* a frame arrives on the open connection
OnMessage(data) ==
    /\ eventSource = "open"
    /\ delivered' = OnMessageFields(listeners, data)
    /\ UNCHANGED <<esVars, unsubs, msgVars, ctlVars, v2Vars, fnVars>>


\* ------------------------------------------------------------------------
\* Texts: sequences of tokens. The characters the code inspects are tokens
\* of their own: the dots of '...', a text made of blanks, and every
\* character of a path
\* ------------------------------------------------------------------------
Empty == <<>>
Ellipsis == <<".", ".", ".">>
ProcessingTools == <<"Processing tools">> \o Ellipsis
ExecutingTools == <<"Executing tools">> \o Ellipsis

\* String.prototype.includes
Includes(s, sub) ==
    \E i \in 0..(Len(s) - Len(sub)) : SubSeq(s, i + 1, i + Len(sub)) = sub

\* String.prototype.startsWith
StartsWith(s, prefix) ==
    Len(prefix) <= Len(s) /\ SubSeq(s, 1, Len(prefix)) = prefix

\* s.trim() is the empty string
TrimIsEmpty(s) == \A i \in 1..Len(s) : s[i] = " "

\* ------------------------------------------------------------------------
\* useMessageStore: each operation maps the store fields to the new fields;
\* t is the value of Date.now() (and of the random suffix) it reads
\* ------------------------------------------------------------------------
ChatMessage(id, type, content, t) ==
    [id |-> id, type |-> type, content |-> content, timestamp |-> t]

StoreOf(msgs, last, log) ==
    [messages |-> msgs, lastStatusMessage |-> last, statusLog |-> log]

\* history: a status text was appended
LogStatus(log, status) == Append(log, [kind |-> "status", text |-> status])

\* history: the marker was set by something else than addStatusMessage
LogReset(log) ==
    IF log = <<>> \/ log[Len(log)].kind = "reset"
    THEN log
    ELSE Append(log, [kind |-> "reset", text |-> Empty])

\* addStatusMessage without the comparison with lastStatusMessage
AddStatusMessage_NoDedup(st, status, t) ==
    [messages |-> Append(st.messages,
                    ChatMessage(<<"event-", t>>, "event", status, t)),
     lastStatusMessage |-> status,
     statusLog |-> LogStatus(st.statusLog, status)]

AddStatusMessage(st, status, t) ==
    IF status # st.lastStatusMessage
    THEN [messages |-> Append(st.messages,
                        ChatMessage(<<"event-", t>>, "event", status, t)),
          lastStatusMessage |-> status,
          statusLog |-> LogStatus(st.statusLog, status)]
    ELSE st

\* an addTextMessage that never looks at the last message
AddTextMessage_AlwaysAppend(st, text, messageId, t) ==
    [st EXCEPT !.messages =
        Append(@, ChatMessage(messageId, "assistant", text, t))]

AddTextMessage(st, text, messageId, t) ==
    LET n == Len(st.messages)
        canUpdateLastMessage ==
            /\ n > 0
            /\ st.messages[n].type = "assistant"
            /\ st.messages[n].id = messageId
    IN IF canUpdateLastMessage
       THEN [st EXCEPT !.messages[n].content = text,
                       !.messages[n].timestamp = t]
       ELSE [st EXCEPT !.messages =
                Append(@, ChatMessage(messageId, "assistant", text, t))]

\* an addUserMessage that files the text as a status line
AddUserMessage_AsEvent(st, content, t) ==
    [st EXCEPT !.messages =
        Append(@, ChatMessage(<<"user-", t>>, "event", content, t))]

AddUserMessage(st, content, t) ==
    [st EXCEPT !.messages =
        Append(@, ChatMessage(<<"user-", t>>, "user", content, t))]

AddErrorMessage(st, content, t) ==
    [st EXCEPT !.messages =
        Append(@, ChatMessage(<<"error-", t>>, "error", content, t))]

\* a removeLastEventMessage that pops any event message
RemoveLastEventMessage_AnyEvent(st) ==
    LET n == Len(st.messages)
    IN IF n > 0 /\ st.messages[n].type = "event"
       THEN [st EXCEPT !.messages = SubSeq(@, 1, n - 1)]
       ELSE st

RemoveLastEventMessage(st) ==
    LET n == Len(st.messages)
    IN IF /\ n > 0
          /\ st.messages[n].type = "event"
          /\ \/ Includes(st.messages[n].content, ProcessingTools)
             \/ Includes(st.messages[n].content, ExecutingTools)
             \/ Includes(st.messages[n].content, Ellipsis)
       THEN [st EXCEPT !.messages = SubSeq(@, 1, n - 1)]
       ELSE st

ClearMessages(st) == StoreOf(<<>>, Empty, LogReset(st.statusLog))

SetLastStatusMessage(st, status) ==
    [st EXCEPT !.lastStatusMessage = status,
               !.statusLog = LogReset(@)]

Store == StoreOf(messages, lastStatusMessage, statusLog)

\* the clock advances past every timestamp the store has used
Ticks(st) == st.messages # messages /\ Len(st.messages) >= Len(messages)

SetStore(st) ==
    /\ Ticks(st) => now < MaxClock
    /\ messages' = st.messages
    /\ lastStatusMessage' = st.lastStatusMessage
    /\ statusLog' = st.statusLog
    /\ now' = IF Ticks(st) THEN now + 1 ELSE now

\* ------------------------------------------------------------------------
\* The message store called directly
\* ------------------------------------------------------------------------
UserTexts == {<<"hello">>}
ReplyTexts == {<<"Hi there">>, <<"Hi">>}
ErrorTexts == {<<"boom">>}
StatusTexts == {ProcessingTools, <<"Plan">>}

\* history of the direct calls: the operation, its arguments, the
\* transcript and the marker it found, and the parity of the call (a call
\* that repeats the previous one is a step of its own)
Called(name, args) ==
    lastOp' = [op |-> name,
               arg |-> <<args, messages, lastStatusMessage,
                         IF Len(lastOp.arg) = 4 THEN 1 - lastOp.arg[4] ELSE 0>>]

StoreFrame ==
    UNCHANGED <<esVars, sessVars, hookVars, subVars, v2Vars, fnVars>>

CallAddUserMessage(c) ==
    /\ SetStore(AddUserMessage(Store, c, now))
    /\ Called("addUserMessage", <<c>>)
    /\ StoreFrame

CallAddStatusMessage(status) ==
    /\ SetStore(AddStatusMessage(Store, status, now))
    /\ Called("addStatusMessage", <<status>>)
    /\ StoreFrame

CallAddTextMessage(text, id) ==
    /\ SetStore(AddTextMessage(Store, text, id, now))
    /\ Called("addTextMessage", <<text, id>>)
    /\ StoreFrame

CallAddErrorMessage(c) ==
    /\ SetStore(AddErrorMessage(Store, c, now))
    /\ Called("addErrorMessage", <<c>>)
    /\ StoreFrame

CallRemoveLastEventMessage ==
    /\ SetStore(RemoveLastEventMessage(Store))
    /\ Called("removeLastEventMessage", <<>>)
    /\ StoreFrame

CallClearMessages ==
    /\ SetStore(ClearMessages(Store))
    /\ Called("clearMessages", <<>>)
    /\ StoreFrame

CallSetLastStatusMessage(status) ==
    /\ SetStore(SetLastStatusMessage(Store, status))
    /\ Called("setLastStatusMessage", <<status>>)
    /\ StoreFrame

\* ------------------------------------------------------------------------
\* Tool status helpers (utils/toolStatusHelpers.ts)
\* ------------------------------------------------------------------------
\* the check mark and the space after it, one token
CheckMark == "(U+2713) "

\* the cross mark and the space after it
CrossMark == "(U+2717) "

\* a || b on strings
OrElse(a, b) == IF a # Empty THEN a ELSE b

\* s.split('/').pop()
RECURSIVE LastSegment(_)
LastSegment(s) ==
    IF s = Empty THEN Empty
    ELSE IF s[Len(s)] = "/" THEN Empty
    ELSE LastSegment(SubSeq(s, 1, Len(s) - 1)) \o <<s[Len(s)]>>

GetToolActionMessage(toolName) ==
    CASE toolName = "bash" -> <<"Writing command">> \o Ellipsis
      [] toolName = "edit" -> <<"Preparing edit">> \o Ellipsis
      [] toolName = "read" -> <<"Reading file">> \o Ellipsis
      [] toolName = "write" -> <<"Preparing write">> \o Ellipsis
      [] toolName = "todowrite" -> <<"Planning">> \o Ellipsis
      [] OTHER -> <<"Working">> \o Ellipsis

\* the tool names of the model: five tools the helpers know, one they do
\* not know and one MCP tool
ToolNames == {"read", "edit", "write", "bash", "todowrite", "frob",
              "mcp_my_tool"}

\* the MCP rule, the mapping and the title case, on the tool names of the
\* model
GetToolDisplayName(toolName) ==
    CASE toolName = "mcp_my_tool" -> <<"My Tool">>
      [] toolName = "todowrite" -> <<"Plan">>
      [] toolName = "bash" -> <<"Bash">>
      [] toolName = "edit" -> <<"Edit">>
      [] toolName = "read" -> <<"Read">>
      [] toolName = "write" -> <<"Write">>
      [] toolName = "frob" -> <<"Frob">>
      [] OTHER -> <<toolName>>

GetToolStatusMessage(toolName, state) ==
    CASE state = "pending" -> GetToolActionMessage(toolName)
      [] state = "running" -> GetToolDisplayName(toolName)
      [] state = "completed" ->
            <<CheckMark>> \o GetToolDisplayName(toolName) \o <<" completed">>
      [] state = "error" ->
            <<CrossMark>> \o GetToolDisplayName(toolName) \o <<" failed">>
      [] OTHER -> GetToolActionMessage(toolName)

\* part.state?.status
StatusOf(part) == IF part.state = <<>> THEN "undefined" ELSE part.state[1].status

IsActiveTool(part) == part.type = "tool" /\ StatusOf(part) # "completed"

IsCompletedTool(part) == part.type = "tool" /\ StatusOf(part) = "completed"

IsToolPart(part) == part.type = "tool"

\* parts.filter(part => part.type === 'tool').length
CountToolParts(parts) == Cardinality({i \in 1..Len(parts) : IsToolPart(parts[i])})

\* the number of tool parts whose status is 'completed'
CountCompleted(parts) ==
    Cardinality({i \in 1..Len(parts) : IsCompletedTool(parts[i])})

Plural(n) == IF n > 1 THEN <<"s">> ELSE Empty

CompletedTools(n) == <<CheckMark, "Completed ", n, " tool">> \o Plural(n)

GetOverallToolStatus(toolParts) ==
    IF toolParts = <<>> THEN Empty
    ELSE IF CountToolParts(toolParts) = 0 THEN Empty
    ELSE IF \E i \in 1..Len(toolParts) : IsActiveTool(toolParts[i])
    THEN LET k == CHOOSE i \in 1..Len(toolParts) :
                    /\ IsActiveTool(toolParts[i])
                    /\ \A j \in 1..(i - 1) : ~IsActiveTool(toolParts[j])
             st == StatusOf(toolParts[k])
         IN GetToolStatusMessage(toolParts[k].tool,
                                 IF st = "undefined" THEN "pending" ELSE st)
    ELSE IF CountCompleted(toolParts) > 0
    THEN CompletedTools(CountCompleted(toolParts))
    ELSE ProcessingTools

\* a check that never sees an active tool
HasActiveToolExecution_Never(message) == FALSE

HasActiveToolExecution(message) ==
    IF message.completed THEN FALSE
    ELSE \E i \in 1..Len(message.parts) : IsActiveTool(message.parts[i])

GetToolProgress(message) ==
    [current |-> CountCompleted(message.parts),
     total |-> CountToolParts(message.parts)]

GetRelativePath(filePath, serverCwd) ==
    IF filePath = Empty THEN <<"file">>
    ELSE IF serverCwd = Empty THEN OrElse(LastSegment(filePath), filePath)
    ELSE IF StartsWith(filePath, serverCwd)
    THEN OrElse(SubSeq(filePath, Len(serverCwd) + 2, Len(filePath)), filePath)
    ELSE OrElse(LastSegment(filePath), filePath)

\* args.todos is <<>> (absent, or not an array) or <<the array>>; an
\* element is wellFormed when it is an object whose content, status, id and
\* priority are strings
IsTodoArgs(args) ==
    /\ args.todos # <<>>
    /\ \A i \in 1..Len(args.todos[1]) : args.todos[1][i].wellFormed

\* a getTodoPhase that looks at the completion ratio first
GetTodoPhase_RatioFirst(args) ==
    IF ~IsTodoArgs(args) THEN <<"Plan">>
    ELSE LET todos == args.todos[1]
             active == {i \in 1..Len(todos) : todos[i].status = "in_progress"}
             completed == Cardinality({i \in 1..Len(todos) :
                                         todos[i].status = "completed"})
         IN IF completed > 0 /\ completed < Len(todos)
            THEN <<"Completed: ", completed, "/", Len(todos)>>
            ELSE IF active # {}
            THEN <<"Working on: ">> \o
                 todos[CHOOSE i \in active : \A j \in active : i <= j].content
            ELSE <<"Plan">>

GetTodoPhase(args) ==
    IF ~IsTodoArgs(args) THEN <<"Plan">>
    ELSE LET todos == args.todos[1]
             active == {i \in 1..Len(todos) : todos[i].status = "in_progress"}
             completed == Cardinality({i \in 1..Len(todos) :
                                         todos[i].status = "completed"})
         IN IF active # {}
            THEN <<"Working on: ">> \o
                 todos[CHOOSE i \in active : \A j \in active : i <= j].content
            ELSE IF completed > 0 /\ completed < Len(todos)
            THEN <<"Completed: ", completed, "/", Len(todos)>>
            ELSE <<"Plan">>

GetToolTitle(toolName, args, serverCwd) ==
    CASE toolName \in {"read", "edit", "write"} ->
            GetToolDisplayName(toolName) \o <<" ">> \o
            GetRelativePath(args.filePath, serverCwd)
      [] toolName = "bash" ->
            <<"Bash", " ">> \o OrElse(args.description, <<"command">>)
      [] toolName = "todowrite" -> GetTodoPhase(args)
      [] OTHER -> GetToolDisplayName(toolName)

\* args with every property absent
NoArgs == [filePath |-> Empty, description |-> Empty, todos |-> <<>>]

\* a status that knows neither the arguments nor the working directory
GetContextualToolStatus_NoContext(toolPart, messageMetadata) ==
    GetToolStatusMessage(toolPart.tool, toolPart.state[1].status)

\* messageMetadata is <<>> (undefined) or <<metadata>>
GetContextualToolStatus(toolPart, messageMetadata) ==
    LET toolName == toolPart.tool
        state == toolPart.state[1].status
        args == IF state # "pending" THEN toolPart.state[1].args ELSE NoArgs
        serverCwd == IF messageMetadata = <<>> THEN Empty
                     ELSE messageMetadata[1].cwd
    IN CASE state = "pending" -> GetToolActionMessage(toolName)
         [] state = "running" -> GetToolTitle(toolName, args, serverCwd)
         [] state = "completed" ->
               <<CheckMark>> \o GetToolDisplayName(toolName) \o <<" completed">>
         [] state = "error" ->
               GetToolDisplayName(toolName) \o <<": ">> \o
               OrElse(toolPart.state[1].error, <<"Error">>)
         [] OTHER -> GetToolActionMessage(toolName)

\* ------------------------------------------------------------------------
\* Events of the stream (services/types.ts)
\* ------------------------------------------------------------------------
TextPart(text) ==
    [type |-> "text", text |-> text, tool |-> "", state |-> <<>>]

ToolPart(tool, status, args) ==
    [type |-> "tool", text |-> Empty, tool |-> tool,
     state |-> <<[status |-> status, args |-> args, error |-> Empty]>>]

StepStartPart == [type |-> "step-start", text |-> Empty, tool |-> "", state |-> <<>>]

SrcFile == <<"/", "r", "/", "s", "/", "A">>

PendingRead == ToolPart("read", "pending", NoArgs)
RunningRead == ToolPart("read", "running", [NoArgs EXCEPT !.filePath = SrcFile])
CompletedRead == ToolPart("read", "completed", [NoArgs EXCEPT !.filePath = SrcFile])
PendingBash == ToolPart("bash", "pending", NoArgs)

\* metadata.assistant.path.cwd of the messages of the model
CwdOf(messageID) == IF messageID = <<"m1">> THEN <<"/", "r">> ELSE <<"/", "o">>

\* MessageMetadata; messageID tags the message that carried it
Metadata(messageID) == [messageID |-> messageID, cwd |-> CwdOf(messageID)]

\* completed: metadata.time.completed is set
Message(id, parts, completed) ==
    [id |-> id, parts |-> parts, completed |-> completed,
     metadata |-> Metadata(id)]

Parts == {TextPart(<<"Hi there">>), TextPart(<<" ">>), PendingRead,
          RunningRead, PendingBash, StepStartPart}

PartLists == {<<>>, <<RunningRead>>, <<CompletedRead>>,
              <<CompletedRead, RunningRead>>, <<TextPart(<<"Hi there">>)>>}

Infos == {Message(id, parts, completed) :
            id \in MessageIds, parts \in PartLists, completed \in BOOLEAN}

RejectTexts == {<<"Network error">>}

\* ------------------------------------------------------------------------
\* useSessionStore
\* ------------------------------------------------------------------------
SessionOf(sid, init, err, idle, cr) ==
    [sessionId |-> sid, isInitializing |-> init, error |-> err,
     isIdle |-> idle, creating |-> cr]

Session == SessionOf(sessionId, isInitializing, error, isIdle, creating)

SetSession(ss) ==
    /\ sessionId' = ss.sessionId
    /\ isInitializing' = ss.isInitializing
    /\ error' = ss.error
    /\ isIdle' = ss.isIdle
    /\ creating' = ss.creating

\* a guard that looks at the session id only
SessionGuard_IdOnly(ss) == ss.sessionId # "null"

\* the guard of initializeSession
SessionGuard(ss) == ss.sessionId # "null" \/ ss.isInitializing

\* initializeSession() up to its await of createSession()
InitializeSessionFields(ss) ==
    IF SessionGuard(ss) THEN ss
    ELSE [ss EXCEPT !.isInitializing = TRUE,
                    !.error = Empty,
                    !.creating = Append(@, FALSE)]

\* ------------------------------------------------------------------------
\* The hooks: closures hold the values of the last render
\* ------------------------------------------------------------------------
HookListeners == [t \in EventTypes |-> <<"hook">>]

Snapshot(hrfe, meta, loading, sid, init, err) ==
    [hasReceivedFirstEvent |-> hrfe, currentMessageMetadata |-> meta,
     isLoading |-> loading, sessionId |-> sid, isInitializing |-> init,
     error |-> err]

Current == Snapshot(hasReceivedFirstEvent, currentMessageMetadata, isLoading,
                    sessionId, isInitializing, error)

ServiceOf(es, live, lst, att) ==
    [eventSource |-> es, liveSources |-> live, listeners |-> lst,
     reconnectAttempts |-> att]

Service == ServiceOf(eventSource, liveSources, listeners, reconnectAttempts)

SetService(sv) ==
    /\ eventSource' = sv.eventSource
    /\ liveSources' = sv.liveSources
    /\ listeners' = sv.listeners
    /\ reconnectAttempts' = sv.reconnectAttempts

\* the effect of useEventStream: connect() and the four subscriptions
EffectBody(sv) ==
    [ConnectFields(sv.eventSource, sv.liveSources, sv.listeners,
                   sv.reconnectAttempts)
     EXCEPT !.listeners = HookListeners]

\* its cleanup (disconnect()) followed by the effect
EffectRerun(sv) == EffectBody(DisconnectFields(sv.eventSource, sv.liveSources))

\* the dependency list of the effect of useEventStream changed
DepsChanged(cur, rend, fresh) ==
    \/ cur.hasReceivedFirstEvent # rend.hasReceivedFirstEvent
    \/ cur.isLoading # rend.isLoading
    \/ fresh
    \/ cur.sessionId # rend.sessionId

\* a re-render and its effects: the service and the store they leave
RenderFields(cur, rend, fresh, sv, st, t) ==
    [service |-> IF DepsChanged(cur, rend, fresh) THEN EffectRerun(sv) ELSE sv,
     store |-> IF cur.error # rend.error /\ cur.error # Empty
               THEN AddErrorMessage(st, cur.error, t)
               ELSE st]

Op(name, arg) == lastOp' = [op |-> name, arg |-> arg]

\* useChatSession mounts: the effect of useEventStream, then initializeSession()
Mount ==
    /\ ~mounted
    /\ Len(creating) < MaxCreating
    /\ mounted' = TRUE
    /\ SetService(EffectBody(Service))
    /\ SetSession(InitializeSessionFields(Session))
    /\ Op("mount", <<>>)
    /\ UNCHANGED <<timers, schedLog, failures, msgVars, staleSeen,
                   hasReceivedFirstEvent, currentMessageMetadata, isLoading,
                   metaFresh, rendered, sends>>
    /\ UNCHANGED <<subVars, v2Vars, fnVars>>

\* initializeSession() called by any component
InitializeSession ==
    /\ Len(creating) < MaxCreating
    /\ SetSession(InitializeSessionFields(Session))
    /\ Op("initializeSession", <<~SessionGuard(Session)>>)
    /\ UNCHANGED <<esVars, msgVars, staleSeen, hookVars>>
    /\ UNCHANGED <<subVars, v2Vars, fnVars>>

\* createSession() resolves with a session
CreateSessionResolve(i, id) ==
    /\ i \in 1..Len(creating)
    /\ SetSession([Session EXCEPT !.sessionId = id,
                                  !.isInitializing = FALSE,
                                  !.creating = RemoveAt(@, i)])
    /\ Op("createSession.resolve", <<>>)
    /\ UNCHANGED <<esVars, msgVars, staleSeen, hookVars>>
    /\ UNCHANGED <<subVars, v2Vars, fnVars>>

\* the values createSession() rejects with: an Error with a message, or a
\* value that is not an Error
Rejections == {[isError |-> TRUE, message |-> <<"Network error">>],
               [isError |-> FALSE, message |-> <<"timeout">>]}

\* error instanceof Error ? error.message : 'Unknown error'
ErrorMessageOf(err) ==
    IF err.isError THEN err.message ELSE <<"Unknown error">>

\* a catch block that stores the error and leaves the in-flight flag set
CreateSessionReject_KeepsInitializing(i, err) ==
    /\ i \in 1..Len(creating)
    /\ SetSession([Session EXCEPT
            !.error = <<"Failed to initialize session - ">>
                         \o ErrorMessageOf(err),
            !.creating = RemoveAt(@, i)])
    /\ Op("createSession.reject", <<>>)
    /\ UNCHANGED <<esVars, msgVars, staleSeen, hookVars>>
    /\ UNCHANGED <<subVars, v2Vars, fnVars>>

\* createSession() rejects: the catch block of initializeSession
CreateSessionReject(i, err) ==
    /\ i \in 1..Len(creating)
    /\ SetSession([Session EXCEPT
            !.error = <<"Failed to initialize session - ">>
                         \o ErrorMessageOf(err),
            !.isInitializing = FALSE,
            !.creating = RemoveAt(@, i)])
    /\ Op("createSession.reject", <<>>)
    /\ UNCHANGED <<esVars, msgVars, staleSeen, hookVars>>
    /\ UNCHANGED <<subVars, v2Vars, fnVars>>

ClearSession ==
    /\ SetSession(SessionOf("null", FALSE, Empty, FALSE,
                            [i \in 1..Len(creating) |-> TRUE]))
    /\ staleSeen' = (staleSeen \/ creating # <<>>)
    /\ Op("clearSession", <<>>)
    /\ UNCHANGED <<esVars, msgVars, hookVars>>
    /\ UNCHANGED <<subVars, v2Vars, fnVars>>

\* setIdle(idle) called by any component
SetIdle(idle) ==
    /\ SetSession([Session EXCEPT !.isIdle = idle])
    /\ Op("setIdle", <<idle>>)
    /\ UNCHANGED <<esVars, msgVars, staleSeen, hookVars>>
    /\ UNCHANGED <<subVars, v2Vars, fnVars>>

\* React re-renders the hooks and runs the effects whose dependencies changed
Render ==
    /\ mounted
    /\ Current # rendered \/ metaFresh
    /\ LET r == RenderFields(Current, rendered, metaFresh, Service, Store, now)
       IN /\ SetService(r.service)
          /\ SetStore(r.store)
    /\ rendered' = Current
    /\ metaFresh' = FALSE
    /\ Op("render", <<>>)
    /\ UNCHANGED <<timers, schedLog, failures, sessVars, mounted,
                   hasReceivedFirstEvent, currentMessageMetadata, isLoading,
                   sends>>
    /\ UNCHANGED <<subVars, v2Vars, fnVars>>

\* the guard of handleMessageSubmit, on the values its closure holds
SubmitIgnored(userInput, rend) ==
    \/ userInput = Empty
    \/ rend.sessionId = "null"
    \/ rend.isLoading
    \/ rend.isInitializing

\* handleMessageSubmit up to its await of sendMessage(). The submit is a
\* discrete event: React re-renders synchronously when the handler returns.
Submit(userInput) ==
    /\ mounted
    /\ IF SubmitIgnored(userInput, rendered)
       THEN /\ Op("submit", <<FALSE>>)
            /\ UNCHANGED <<esVars, msgVars, sessVars, hookVars>>
       ELSE /\ Len(sends) < MaxSends
            /\ isLoading' = TRUE
            /\ hasReceivedFirstEvent' = FALSE
            /\ sends' = Append(sends,
                    [hasReceivedFirstEvent |-> rendered.hasReceivedFirstEvent,
                     eventSeen |-> FALSE])
            /\ isIdle' = FALSE
            /\ LET cur == [Current EXCEPT !.isLoading = TRUE,
                                          !.hasReceivedFirstEvent = FALSE]
                   st == AddUserMessage(SetLastStatusMessage(Store, Empty),
                                        userInput, now)
                   r == RenderFields(cur, rendered, metaFresh, Service, st, now)
               IN /\ SetService(r.service)
                  /\ SetStore(r.store)
                  /\ rendered' = cur
            /\ metaFresh' = FALSE
            /\ Op("submit", <<TRUE>>)
            /\ UNCHANGED <<timers, schedLog, failures, sessionId,
                           isInitializing, error, creating, staleSeen,
                           mounted, currentMessageMetadata>>
    /\ UNCHANGED <<subVars, v2Vars, fnVars>>

\* a continuation of the send that marks the session busy again
SendResolve_ResetsIdle(i, hasTools) ==
    /\ i \in 1..Len(sends)
    /\ LET emit == ~sends[i].hasReceivedFirstEvent /\ hasTools
       IN /\ SetStore(IF emit
                      THEN AddStatusMessage(Store, ProcessingTools, now)
                      ELSE Store)
          /\ Op("send.resolve", <<>>)
    /\ isLoading' = FALSE
    /\ isIdle' = FALSE
    /\ sends' = RemoveAt(sends, i)
    /\ UNCHANGED <<esVars, sessionId, isInitializing, error, creating,
                   staleSeen, mounted, hasReceivedFirstEvent,
                   currentMessageMetadata, metaFresh, rendered>>
    /\ UNCHANGED <<subVars, v2Vars, fnVars>>

\* sendMessage() resolves: the rest of the try block, then finally
SendResolve(i, hasTools) ==
    /\ i \in 1..Len(sends)
    /\ LET emit == ~sends[i].hasReceivedFirstEvent /\ hasTools
       IN /\ SetStore(IF emit
                      THEN AddStatusMessage(Store, ProcessingTools, now)
                      ELSE Store)
          /\ Op("send.resolve", <<>>)
    /\ isLoading' = FALSE
    /\ sends' = RemoveAt(sends, i)
    /\ UNCHANGED <<esVars, sessVars, mounted, hasReceivedFirstEvent,
                   currentMessageMetadata, metaFresh, rendered>>
    /\ UNCHANGED <<subVars, v2Vars, fnVars>>

\* `${error}` for an Error with this message
ErrorToString(err) == <<"Error: ">> \o err

\* a catch without the finally block
SendReject_KeepsLoading(i, err) ==
    /\ i \in 1..Len(sends)
    /\ SetStore(AddErrorMessage(Store,
                    <<"Failed to send message - ">> \o ErrorToString(err), now))
    /\ Op("send.reject", <<>>)
    /\ sends' = RemoveAt(sends, i)
    /\ UNCHANGED <<esVars, sessVars, mounted, hasReceivedFirstEvent,
                   currentMessageMetadata, isLoading, metaFresh, rendered>>
    /\ UNCHANGED <<subVars, v2Vars, fnVars>>

\* sendMessage() rejects: catch, then finally
SendReject(i, err) ==
    /\ i \in 1..Len(sends)
    /\ SetStore(AddErrorMessage(Store,
                    <<"Failed to send message - ">> \o ErrorToString(err), now))
    /\ Op("send.reject", <<>>)
    /\ isLoading' = FALSE
    /\ sends' = RemoveAt(sends, i)
    /\ UNCHANGED <<esVars, sessVars, mounted, hasReceivedFirstEvent,
                   currentMessageMetadata, metaFresh, rendered>>
    /\ UNCHANGED <<subVars, v2Vars, fnVars>>

\* a frame of this type reaches the callback the hook subscribed
Delivered(type) ==
    /\ mounted
    /\ eventSource = "open"
    /\ listeners[type] # <<>>

\* history: a stream event was handled while these sends were in flight
MarkEventSeen(ss) == [i \in 1..Len(ss) |-> [ss[i] EXCEPT !.eventSeen = TRUE]]

\* 'message.updated' -> updateStatusFromMessage(data.info)
MessageUpdated(info) ==
    /\ Delivered("message.updated")
    /\ hasReceivedFirstEvent' =
          IF ~rendered.hasReceivedFirstEvent THEN TRUE ELSE hasReceivedFirstEvent
    /\ currentMessageMetadata' = <<info.metadata>>
    /\ metaFresh' = TRUE
    /\ IF info.completed
       THEN /\ isLoading' = FALSE
            /\ UNCHANGED msgVars
       ELSE /\ UNCHANGED isLoading
            /\ IF HasActiveToolExecution(info)
               THEN SetStore(AddStatusMessage(Store,
                                GetOverallToolStatus(info.parts), now))
               ELSE IF GetToolProgress(info).total > 0
               THEN SetStore(AddStatusMessage(Store,
                        CompletedTools(GetToolProgress(info).total), now))
               ELSE UNCHANGED msgVars
    /\ sends' = MarkEventSeen(sends)
    /\ Op("message.updated", <<>>)
    /\ UNCHANGED <<esVars, sessVars, mounted, rendered>>
    /\ UNCHANGED <<subVars, v2Vars, fnVars>>

\* 'message.part.updated' ->
\*     updateStatusFromPart(data.part, data.messageID, currentMessageMetadata)
PartUpdated(part, messageID) ==
    /\ Delivered("message.part.updated")
    /\ hasReceivedFirstEvent' =
          IF ~rendered.hasReceivedFirstEvent THEN TRUE ELSE hasReceivedFirstEvent
    /\ LET messageMetadata == rendered.currentMessageMetadata
       IN /\ IF part.type = "tool" /\ part.state # <<>>
             THEN SetStore(AddStatusMessage(Store,
                        GetContextualToolStatus(part, messageMetadata), now))
             ELSE IF part.type = "text"
             THEN IF part.text # Empty /\ ~TrimIsEmpty(part.text)
                  THEN SetStore(AddTextMessage(Store, part.text, messageID, now))
                  ELSE UNCHANGED msgVars
             ELSE UNCHANGED msgVars
          /\ Op("message.part.updated", <<>>)
    /\ sends' = MarkEventSeen(sends)
    /\ UNCHANGED <<esVars, sessVars, mounted, currentMessageMetadata,
                   isLoading, metaFresh, rendered>>
    /\ UNCHANGED <<subVars, v2Vars, fnVars>>

\* 'session.error'
SessionError(msg) ==
    /\ Delivered("session.error")
    /\ SetStore(AddErrorMessage(Store, msg, now))
    /\ Op("session.error", <<>>)
    /\ UNCHANGED <<esVars, sessVars, hookVars>>
    /\ UNCHANGED <<subVars, v2Vars, fnVars>>

\* 'session.idle'
SessionIdle(sessionID) ==
    /\ Delivered("session.idle")
    /\ IF sessionID = rendered.sessionId
       THEN /\ isIdle' = TRUE
            /\ isLoading' = FALSE
            /\ SetStore(SetLastStatusMessage(RemoveLastEventMessage(Store),
                                             Empty))
       ELSE UNCHANGED <<isIdle, isLoading, msgVars>>
    /\ Op("session.idle", <<>>)
    /\ UNCHANGED <<esVars, sessionId, isInitializing, error, creating,
                   staleSeen, mounted, hasReceivedFirstEvent,
                   currentMessageMetadata, metaFresh, rendered, sends>>
    /\ UNCHANGED <<subVars, v2Vars, fnVars>>

\* ------------------------------------------------------------------------
\* useMessageStoreV2 (messages with their parts, keyed by id)
\* ------------------------------------------------------------------------
V2PartIds == {<<"p1">>}

ToolStatuses == {"pending", "running", "completed", "error"}

\* a tool Part of the V2 store: id, messageID, type, tool and state
V2ToolPart(id, messageID, status) ==
    [id |-> id, messageID |-> messageID, type |-> "tool", text |-> Empty,
     tool |-> "read", state |-> <<[status |-> status]>>]

V2ToolParts == {V2ToolPart(id, messageID, status) :
                  id \in V2PartIds, messageID \in MessageIds,
                  status \in ToolStatuses}

\* Message of the V2 store; completed: time.completed is set
V2Info(id, role, completed) ==
    [id |-> id, role |-> role, completed |-> completed]

V2Infos == {V2Info(id, "assistant", completed) :
              id \in MessageIds, completed \in BOOLEAN}

\* the message lists a session is hydrated from
V2Sessions ==
    {<<>>,
     <<[info |-> V2Info(<<"m1">>, "assistant", TRUE),
        parts |-> <<V2ToolPart(<<"p1">>, <<"m1">>, "completed")>>]>>}

\* messages.findIndex(msg => msg.info.id === id): 0 stands for -1
FindMessageIndex(msgs, id) ==
    LET hits == {i \in 1..Len(msgs) : msgs[i].info.id = id}
    IN IF hits = {} THEN 0 ELSE CHOOSE i \in hits : \A j \in hits : i <= j

\* message.parts.findIndex(p => p.id === id): 0 stands for -1
FindPartIndex(parts, id) ==
    LET hits == {i \in 1..Len(parts) : parts[i].id = id}
    IN IF hits = {} THEN 0 ELSE CHOOSE i \in hits : \A j \in hits : i <= j

HandleMessageUpdatedFields(msgs, info) ==
    LET existingIndex == FindMessageIndex(msgs, info.id)
    IN IF existingIndex > 0
       THEN [msgs EXCEPT ![existingIndex].info = info]
       ELSE Append(msgs, [info |-> info, parts |-> <<>>])

\* a handlePartUpdated that pushes every part it is given
HandlePartUpdatedFields_AlwaysPush(msgs, part) ==
    LET messageIndex == FindMessageIndex(msgs, part.messageID)
    IN IF messageIndex > 0
       THEN [msgs EXCEPT ![messageIndex].parts = Append(@, part)]
       ELSE msgs

\* a handlePartUpdated that creates the message a part refers to
HandlePartUpdatedFields_Adopts(msgs, part) ==
    LET messageIndex == FindMessageIndex(msgs, part.messageID)
    IN IF messageIndex > 0
       THEN LET partIndex == FindPartIndex(msgs[messageIndex].parts, part.id)
            IN IF partIndex > 0
               THEN [msgs EXCEPT ![messageIndex].parts[partIndex] = part]
               ELSE [msgs EXCEPT ![messageIndex].parts = Append(@, part)]
       ELSE Append(msgs, [info |-> V2Info(part.messageID, "assistant", FALSE),
                          parts |-> <<part>>])

HandlePartUpdatedFields(msgs, part) ==
    LET messageIndex == FindMessageIndex(msgs, part.messageID)
    IN IF messageIndex > 0
       THEN LET partIndex == FindPartIndex(msgs[messageIndex].parts, part.id)
            IN IF partIndex > 0
               THEN [msgs EXCEPT ![messageIndex].parts[partIndex] = part]
               ELSE [msgs EXCEPT ![messageIndex].parts = Append(@, part)]
       ELSE msgs

HandleMessageRemovedFields(msgs, messageId) ==
    SelectSeq(msgs, LAMBDA msg : msg.info.id # messageId)

\* addUserMessage(content, messageId) of the V2 store
V2UserMessage(content, messageId) ==
    [info |-> V2Info(messageId, "user", FALSE),
     parts |-> <<[id |-> messageId \o <<"-text">>, messageID |-> messageId,
                  type |-> "text", text |-> content, tool |-> "",
                  state |-> <<>>]>>]

V2Frame == UNCHANGED <<esVars, subVars, msgVars, ctlVars, fnVars>>

HydrateFromSession(msgs) ==
    /\ v2Messages # msgs
    /\ v2Messages' = msgs
    /\ UNCHANGED droppedFor
    /\ V2Frame

HandleMessageUpdated(info) ==
    /\ FindMessageIndex(v2Messages, info.id) = 0
         => Len(v2Messages) < MaxV2Messages
    /\ v2Messages' = HandleMessageUpdatedFields(v2Messages, info)
    /\ UNCHANGED droppedFor
    /\ V2Frame

HandlePartUpdated(part) ==
    /\ v2Messages' = HandlePartUpdatedFields(v2Messages, part)
    /\ droppedFor' = IF FindMessageIndex(v2Messages, part.messageID) = 0
                     THEN droppedFor \cup {part.messageID}
                     ELSE droppedFor
    /\ V2Frame

HandleMessageRemoved(messageId) ==
    /\ v2Messages' = HandleMessageRemovedFields(v2Messages, messageId)
    /\ UNCHANGED droppedFor
    /\ V2Frame

V2AddUserMessage(content, messageId) ==
    /\ Len(v2Messages) < MaxV2Messages
    /\ v2Messages' = Append(v2Messages, V2UserMessage(content, messageId))
    /\ UNCHANGED droppedFor
    /\ V2Frame

V2ClearMessages ==
    /\ v2Messages' = <<>>
    /\ UNCHANGED droppedFor
    /\ V2Frame

InitV2 == v2Messages = <<>> /\ droppedFor = {}

\* ------------------------------------------------------------------------
\* Streaming helpers (utils/streamingHelpers.ts)
\* ------------------------------------------------------------------------
\* a value used as a condition: undefined and 0 are false
Truthy(opt) == opt # <<>> /\ opt[1] # 0

FailedRead ==
    ToolPart("read", "error", [NoArgs EXCEPT !.filePath = SrcFile])

\* the parts of the messages handed to the helpers
StepFinishPart == [StepStartPart EXCEPT !.type = "step-finish"]

StreamParts == {TextPart(<<"Hi there">>), PendingRead, RunningRead,
                CompletedRead, FailedRead, StepStartPart, StepFinishPart}

PartSeqs == UNION {[1..n -> StreamParts] : n \in 0..MaxParts}

\* metadata.time.completed: undefined or a timestamp in milliseconds
CompletedTimes == {<<>>, <<1700>>}

StreamMessage(parts, completed) ==
    [parts |-> parts, metadata |-> [time |-> [completed |-> completed]]]

StreamMessages == {StreamMessage(parts, completed) :
                     parts \in PartSeqs, completed \in CompletedTimes}

EndsWithStepStart(parts) ==
    parts # <<>> /\ parts[Len(parts)].type = "step-start"

\* an isMessageStreaming that does not look at the idle flag
IsMessageStreaming_IgnoresIdle(message, sessionIdle) ==
    IF Truthy(message.metadata.time.completed) THEN FALSE
    ELSE LET hasIncompleteTools ==
                \E i \in 1..Len(message.parts) :
                    /\ message.parts[i].type = "tool"
                    /\ StatusOf(message.parts[i]) # "completed"
         IN hasIncompleteTools \/ EndsWithStepStart(message.parts)

IsMessageStreaming(message, sessionIdle) ==
    IF Truthy(message.metadata.time.completed) THEN FALSE
    ELSE IF sessionIdle THEN FALSE
    ELSE LET hasIncompleteTools ==
                \E i \in 1..Len(message.parts) :
                    /\ message.parts[i].type = "tool"
                    /\ StatusOf(message.parts[i]) # "completed"
         IN hasIncompleteTools \/ EndsWithStepStart(message.parts)

CountType(parts, type) ==
    Cardinality({i \in 1..Len(parts) : parts[i].type = type})

GetStreamingState(message, sessionIdle) ==
    LET isComplete == Truthy(message.metadata.time.completed) \/ sessionIdle
        stepStarts == CountType(message.parts, "step-start")
        toolInvocations == CountType(message.parts, "tool")
    IN [isStreaming |-> IsMessageStreaming(message, sessionIdle),
        isComplete |-> isComplete,
        hasToolExecution |-> toolInvocations > 0,
        currentStep |-> stepStarts,
        totalSteps |-> IF isComplete THEN stepStarts ELSE stepStarts + 1]

GetStreamingStatusText(state) ==
    IF state.isComplete THEN <<"Complete">>
    ELSE IF state.hasToolExecution
    THEN <<"Executing tools... (Step ", state.currentStep, ")">>
    ELSE <<"Thinking...">>

HasDisplayableContent(message) ==
    \E i \in 1..Len(message.parts) :
        message.parts[i].type = "text" \/ message.parts[i].type = "tool"

\* a shouldShowTypingIndicator that does not ask whether the message streams
ShouldShowTypingIndicator_Always(message, sessionIdle) ==
    ~HasDisplayableContent(message) \/ EndsWithStepStart(message.parts)

\* a shouldShowTypingIndicator that shows the indicator for every message
\* in progress that has nothing to display yet
ShouldShowTypingIndicator_NoContent(message, sessionIdle) ==
    IF Truthy(message.metadata.time.completed) \/ sessionIdle THEN FALSE
    ELSE ~HasDisplayableContent(message) \/ EndsWithStepStart(message.parts)

ShouldShowTypingIndicator(message, sessionIdle) ==
    LET state == GetStreamingState(message, sessionIdle)
    IN IF ~state.isStreaming THEN FALSE
       ELSE ~HasDisplayableContent(message) \/ EndsWithStepStart(message.parts)

\* ------------------------------------------------------------------------
\* The helper functions called directly
\* ------------------------------------------------------------------------
FnFrame == UNCHANGED <<esVars, subVars, msgVars, ctlVars, v2Vars>>

\* no function was called yet; args are the arguments of the calls to come
NoCall(args) == [fn |-> "none", args |-> args, result |-> <<>>]

CallIsMessageStreaming ==
    /\ call' = [call EXCEPT
                  !.fn = "isMessageStreaming",
                  !.result = IsMessageStreaming(call.args[1], call.args[2])]
    /\ FnFrame

\* getStreamingStatusText(getStreamingState(message, sessionIdle))
CallGetStreamingStatusText ==
    /\ call' = [call EXCEPT
                  !.fn = "getStreamingStatusText",
                  !.result = GetStreamingStatusText(
                                GetStreamingState(call.args[1], call.args[2]))]
    /\ FnFrame

CallShouldShowTypingIndicator ==
    /\ call' = [call EXCEPT
                  !.fn = "shouldShowTypingIndicator",
                  !.result = ShouldShowTypingIndicator(call.args[1],
                                                       call.args[2])]
    /\ FnFrame

\* the tool parts handed to getContextualToolStatus: every tool name in
\* every state, with and without a file path, a description and an error
\* text
ToolArgs == {[NoArgs EXCEPT !.filePath = f, !.description = d] :
               f \in {Empty, SrcFile, <<"/", "o", "/", "B">>},
               d \in {Empty, <<"ls">>}}

StatusToolParts ==
    {[ToolPart(tool, status, args) EXCEPT !.state[1].error = e] :
        tool \in ToolNames, status \in ToolStatuses, args \in ToolArgs,
        e \in {Empty, <<"ENOENT">>}}

CallGetContextualToolStatus ==
    /\ call' = [call EXCEPT
                  !.fn = "getContextualToolStatus",
                  !.result = GetContextualToolStatus(call.args[1],
                                                     call.args[2])]
    /\ FnFrame

\* file paths as strings of characters: every string of up to MaxPath
\* characters over a separator and two letters; <<>> is an absent path
PathChars == {"/", "a", "b"}

FilePaths == UNION {[1..n -> PathChars] : n \in 0..MaxPath}

\* the working directories: none, the root and two directories below it
ServerCwds == {Empty, <<"/">>, <<"/", "a">>, <<"/", "b">>}

CallGetRelativePath ==
    /\ call' = [call EXCEPT
                  !.fn = "getRelativePath",
                  !.result = GetRelativePath(call.args[1], call.args[2])]
    /\ FnFrame

\* the elements of a todos array: TodoItems, and one element that fails
\* the shape check (its content is not a string)
TodoItem(content, status) ==
    [wellFormed |-> TRUE, content |-> content, status |-> status]

TodoItems == {TodoItem(content, status) :
                content \in {<<"A">>, <<"B">>},
                status \in {"pending", "in_progress", "completed",
                            "cancelled"}}
             \cup {[wellFormed |-> FALSE, content |-> Empty,
                    status |-> "in_progress"]}

\* the arguments of a todowrite call: without a todos array, or with one
TodoArgs == {NoArgs}
            \cup {[NoArgs EXCEPT !.todos = <<todos>>] :
                    todos \in UNION {[1..n -> TodoItems] : n \in 0..MaxTodos}}

CallGetTodoPhase ==
    /\ call' = [call EXCEPT !.fn = "getTodoPhase",
                            !.result = GetTodoPhase(call.args[1])]
    /\ FnFrame

InitFn == call = NoCall(<<>>)

InitMsg ==
    /\ messages = <<>>
    /\ lastStatusMessage = Empty
    /\ now = 0
    /\ statusLog = <<>>

InitCtl ==
    /\ sessionId = "null"
    /\ isInitializing = FALSE
    /\ error = Empty
    /\ isIdle = FALSE
    /\ creating = <<>>
    /\ staleSeen = FALSE
    /\ mounted = FALSE
    /\ hasReceivedFirstEvent = FALSE
    /\ currentMessageMetadata = <<>>
    /\ isLoading = FALSE
    /\ metaFresh = FALSE
    /\ rendered = Snapshot(FALSE, <<>>, FALSE, "null", FALSE, Empty)
    /\ sends = <<>>
    /\ lastOp = [op |-> "none", arg |-> <<>>]

Init == InitES /\ InitMsg /\ InitCtl /\ InitV2 /\ InitFn

NextES ==
    \/ Connect
    \/ Disconnect
    \/ \E t \in EventTypes, cb \in Callbacks : Subscribe(t, cb)
    \/ OnOpen
    \/ \E next \in {"connecting", "closed"} : OnError(next)
    \/ \E i \in 1..MaxTimers : TimerFire(i)

SpecES == Init /\ [][NextES]_vars

NextSub ==
    \/ \E t \in FrameTypes, cb \in Callbacks : SubscribeKept(t, cb)
    \/ \E k \in 1..MaxUnsubs : Unsubscribe(k)
    \/ Connect
    \/ Disconnect
    \/ OnOpen
    \/ \E data \in Frames : OnMessage(data)
    \/ \E next \in {"connecting", "closed"} : OnError(next)

SpecSub == Init /\ [][NextSub]_vars

NextV2 ==
    \/ \E msgs \in V2Sessions : HydrateFromSession(msgs)
    \/ \E info \in V2Infos : HandleMessageUpdated(info)
    \/ \E part \in V2ToolParts : HandlePartUpdated(part)
    \/ \E messageId \in MessageIds : HandleMessageRemoved(messageId)
    \/ \E content \in UserTexts, messageId \in MessageIds :
          V2AddUserMessage(content, messageId)
    \/ V2ClearMessages

SpecV2 == Init /\ [][NextV2]_vars

\* the parts of the message.part.updated events of two messages
V2EventParts == {V2ToolPart(id, messageID, status) :
                   id \in {<<"p1">>, <<"p2">>}, messageID \in MessageIds,
                   status \in {"pending", "completed"}}

\* the V2 store fed by the event stream alone, from the empty store
NextV2Events ==
    \/ \E info \in V2Infos : HandleMessageUpdated(info)
    \/ \E part \in V2EventParts : HandlePartUpdated(part)
    \/ \E messageId \in MessageIds : HandleMessageRemoved(messageId)

SpecV2Events == Init /\ [][NextV2Events]_vars

\* the session of the chat: its initialization, which may fail and be
\* tried again, and the submits made meanwhile
NextInit ==
    \/ Mount
    \/ InitializeSession
    \/ \E i \in 1..MaxCreating : CreateSessionResolve(i, "s1")
    \/ \E i \in 1..MaxCreating, err \in Rejections : CreateSessionReject(i, err)
    \/ OnOpen
    \/ Render
    \/ \E userInput \in UserTexts \cup {Empty} : Submit(userInput)
    \/ \E i \in 1..MaxSends, hasTools \in BOOLEAN : SendResolve(i, hasTools)
    \/ \E i \in 1..MaxSends, err \in RejectTexts : SendReject(i, err)

SpecInit == Init /\ [][NextInit]_vars

\* the streaming helpers applied to a message and the idle flag
InitStream ==
    /\ InitES /\ InitMsg /\ InitCtl /\ InitV2
    /\ \E message \in StreamMessages, sessionIdle \in BOOLEAN :
          call = NoCall(<<message, sessionIdle>>)

NextStream ==
    \/ CallIsMessageStreaming
    \/ CallGetStreamingStatusText
    \/ CallShouldShowTypingIndicator

SpecStream == InitStream /\ [][NextStream]_vars

\* getContextualToolStatus applied to a tool part and the cached metadata
InitTool ==
    /\ InitES /\ InitMsg /\ InitCtl /\ InitV2
    /\ \E toolPart \in StatusToolParts,
          messageMetadata \in {<<>>, <<Metadata(<<"m1">>)>>} :
          call = NoCall(<<toolPart, messageMetadata>>)

NextTool == CallGetContextualToolStatus

SpecTool == InitTool /\ [][NextTool]_vars

\* getRelativePath applied to a file path and a working directory
InitPath ==
    /\ InitES /\ InitMsg /\ InitCtl /\ InitV2
    /\ \E filePath \in FilePaths, serverCwd \in ServerCwds :
          call = NoCall(<<filePath, serverCwd>>)

NextPath == CallGetRelativePath

SpecPath == InitPath /\ [][NextPath]_vars

\* getTodoPhase applied to the arguments of a todowrite call
InitTodo ==
    /\ InitES /\ InitMsg /\ InitCtl /\ InitV2
    /\ \E args \in TodoArgs : call = NoCall(<<args>>)

NextTodo == CallGetTodoPhase

SpecTodo == InitTodo /\ [][NextTodo]_vars

\* the service as its owner uses it across a transport error: connect(),
\* subscribe(), the events of the EventSource and the reconnect timers
NextReconnect ==
    \/ Connect
    \/ \E t \in FrameTypes, cb \in Callbacks : Subscribe(t, cb)
    \/ OnOpen
    \/ \E data \in Frames : OnMessage(data)
    \/ \E next \in {"connecting", "closed"} : OnError(next)
    \/ \E i \in 1..MaxTimers : TimerFire(i)

SpecReconnect == Init /\ [][NextReconnect]_vars

NextStore ==
    \/ \E c \in UserTexts : CallAddUserMessage(c)
    \/ \E status \in StatusTexts : CallAddStatusMessage(status)
    \/ \E text \in ReplyTexts, id \in MessageIds : CallAddTextMessage(text, id)
    \/ \E c \in ErrorTexts : CallAddErrorMessage(c)
    \/ CallRemoveLastEventMessage
    \/ CallClearMessages
    \/ \E status \in StatusTexts \cup {Empty} : CallSetLastStatusMessage(status)

SpecStore == Init /\ [][NextStore]_vars

NextSess ==
    \/ InitializeSession
    \/ \E i \in 1..MaxCreating, id \in SessionIds : CreateSessionResolve(i, id)
    \/ \E i \in 1..MaxCreating, err \in Rejections : CreateSessionReject(i, err)
    \/ ClearSession
    \/ \E idle \in BOOLEAN : SetIdle(idle)

SpecSess == Init /\ [][NextSess]_vars

NextCtl ==
    \/ Mount
    \/ \E i \in 1..MaxCreating : CreateSessionResolve(i, "s1")
    \/ \E i \in 1..MaxCreating, err \in {r \in Rejections : r.isError} :
          CreateSessionReject(i, err)
    \/ OnOpen
    \/ Render
    \/ \E userInput \in UserTexts \cup {Empty} : Submit(userInput)
    \/ \E i \in 1..MaxSends, hasTools \in BOOLEAN : SendResolve(i, hasTools)
    \/ \E i \in 1..MaxSends, err \in RejectTexts : SendReject(i, err)
    \/ \E info \in Infos : MessageUpdated(info)
    \/ \E part \in Parts, messageID \in MessageIds : PartUpdated(part, messageID)
    \/ \E msg \in ErrorTexts : SessionError(msg)
    \/ \E sessionID \in SessionIds : SessionIdle(sessionID)

SpecCtl == Init /\ [][NextCtl]_vars

\* one session and the events of its message m1
TurnInfos == {info \in Infos : info.id = <<"m1">>}

TurnParts == {TextPart(<<"Hi there">>), PendingRead}

NextTurn ==
    \/ Mount
    \/ \E i \in 1..MaxCreating : CreateSessionResolve(i, "s1")
    \/ OnOpen
    \/ Render
    \/ \E userInput \in UserTexts : Submit(userInput)
    \/ \E i \in 1..MaxSends, hasTools \in BOOLEAN : SendResolve(i, hasTools)
    \/ \E i \in 1..MaxSends, err \in RejectTexts : SendReject(i, err)
    \/ \E info \in TurnInfos : MessageUpdated(info)
    \/ \E part \in TurnParts : PartUpdated(part, <<"m1">>)
    \/ \E msg \in ErrorTexts : SessionError(msg)
    \/ SessionIdle("s1")

SpecTurn == Init /\ [][NextTurn]_vars

\* a sendMessage() call in flight settles: the promise resolves or rejects
Settle ==
    \E i \in 1..MaxSends :
        \/ \E hasTools \in BOOLEAN : SendResolve(i, hasTools)
        \/ \E err \in RejectTexts : SendReject(i, err)

\* the turn when every sendMessage() call eventually settles
SpecSettle == Init /\ [][NextTurn]_vars /\ WF_vars(Settle)

\* ------------------------------------------------------------------------
\* C1: after 5 consecutive transport errors without a successful open no
\* further reconnection attempt is scheduled, and never more than 5
\* reconnection attempts are made without an intervening successful open.
\* ------------------------------------------------------------------------
C1_ReconnectCap ==
    /\ Len(schedLog) <= maxReconnectAttempts
    /\ (failures >= maxReconnectAttempts /\ timers = <<>>) =>
          reconnectAttempts = maxReconnectAttempts

\* ------------------------------------------------------------------------
\* C2: the k-th consecutive reconnection attempt since the last successful
\* open is scheduled with delay reconnectDelay * 2^(k-1).
\* ------------------------------------------------------------------------
C2_ExponentialBackoff ==
    \A k \in 1..Len(schedLog) : schedLog[k] = reconnectDelay * Pow2(k - 1)

\* ------------------------------------------------------------------------
\* C3: no two assistant messages of the transcript have the same id,
\* whatever store operations were called (an addTextMessage for an id that
\* is already present never appends a second message with that id).
\* ------------------------------------------------------------------------
C3_AssistantIdsUnique ==
    \A i, j \in 1..Len(messages) :
        (/\ messages[i].type = "assistant"
         /\ messages[j].type = "assistant"
         /\ messages[i].id = messages[j].id) => i = j

\* ------------------------------------------------------------------------
\* C4: the status texts appended by addStatusMessage never contain the same
\* text twice in a row. As stated (over all operations, resets of the marker
\* included) every appended status differs from the previously appended one.
\* ------------------------------------------------------------------------
IsStatus(e) == e.kind = "status"

AppendedStatuses == SelectSeq(statusLog, IsStatus)

C4_NeverSameStatusTwice ==
    \A k \in 1..(Len(AppendedStatuses) - 1) :
        AppendedStatuses[k].text # AppendedStatuses[k + 1].text

\* C4 as the code keeps it: two status texts appended one after the other
\* are different unless the marker lastStatusMessage was set in between by
\* setLastStatusMessage or clearMessages (as submit and session.idle do).
C4_NoRepeatWithoutReset ==
    \A k \in 1..(Len(statusLog) - 1) :
        (IsStatus(statusLog[k]) /\ IsStatus(statusLog[k + 1]))
            => statusLog[k].text # statusLog[k + 1].text

\* a status was appended, the marker was reset, and the same status was
\* appended again; another addStatusMessage of that text was then ignored
C4_Witness ==
    \E k \in 1..(Len(statusLog) - 2) :
        /\ IsStatus(statusLog[k])
        /\ ~IsStatus(statusLog[k + 1])
        /\ IsStatus(statusLog[k + 2])
        /\ statusLog[k].text = statusLog[k + 2].text
        /\ k + 2 = Len(statusLog)
        /\ lastStatusMessage = statusLog[k + 2].text

\* ------------------------------------------------------------------------
\* C5: a submit made while a send is outstanding, while loading, while no
\* session id exists or while the session is initializing is ignored: no
\* user message, no sendMessage call, no change of store or hook state.
\* ------------------------------------------------------------------------
C5_SubmitIgnoredWhileActive ==
    [][\A userInput \in UserTexts \cup {Empty} :
        (/\ Submit(userInput)
         /\ \/ sends # <<>>
            \/ isLoading
            \/ sessionId = "null"
            \/ isInitializing)
        => UNCHANGED <<msgVars, sessVars, hookVars>>]_vars

\* ------------------------------------------------------------------------
\* C6: an initializeSession() call made when a session id exists or an
\* initialization is in flight changes nothing and issues no createSession;
\* createSession is issued only with no session id stored and, as long as no
\* clearSession() interfered with a call in flight, with no other
\* createSession in flight.
\* ------------------------------------------------------------------------
C6_InitializeSessionGuard ==
    [][/\ ((sessionId # "null" \/ isInitializing) /\ InitializeSession)
            => UNCHANGED <<esVars, msgVars, sessVars, hookVars>>
       /\ Len(creating') > Len(creating)
            => /\ sessionId = "null"
               /\ ~isInitializing
               /\ ~staleSeen => creating = <<>>]_vars

\* initializeSession() was called while an earlier call awaited
\* createSession, and was ignored
C6_Witness ==
    /\ lastOp = [op |-> "initializeSession", arg |-> <<FALSE>>]
    /\ isInitializing
    /\ sessionId = "null"
    /\ Len(creating) = 1
    /\ ~staleSeen

\* ------------------------------------------------------------------------
\* C7: handling session.error sets loading to false and appends exactly one
\* error message with the message of the event.
\* ------------------------------------------------------------------------
C7_SessionErrorEndsTurn ==
    [][\A msg \in ErrorTexts :
        SessionError(msg)
        => /\ isLoading' = FALSE
           /\ Len(messages') = Len(messages) + 1
           /\ SubSeq(messages', 1, Len(messages)) = messages
           /\ messages'[Len(messages')].type = "error"
           /\ messages'[Len(messages')].content = msg]_vars

\* ------------------------------------------------------------------------
\* C8: handling session.idle for the active session sets the idle flag,
\* sets loading to false, leaves no event message containing '...' at the
\* end of the transcript and resets lastStatusMessage; for any other
\* session id it changes no store or controller state. Stated for a handler
\* whose closure holds the session id of the store.
\* ------------------------------------------------------------------------
Lingering(msgs) ==
    /\ msgs # <<>>
    /\ msgs[Len(msgs)].type = "event"
    /\ Includes(msgs[Len(msgs)].content, Ellipsis)

C8_SessionIdleClearsTurn ==
    [][\A sessionID \in SessionIds :
        (SessionIdle(sessionID) /\ rendered.sessionId = sessionId)
        => IF sessionID = sessionId
           THEN /\ isIdle'
                /\ ~isLoading'
                /\ ~Lingering(messages')
                /\ lastStatusMessage' = Empty
           ELSE UNCHANGED <<messages, lastStatusMessage, sessVars,
                            hasReceivedFirstEvent, currentMessageMetadata,
                            isLoading>>]_vars

\* ------------------------------------------------------------------------
\* C9: the status appended for a tool part of message M is computed with the
\* metadata cached for M, or with no metadata; never with the metadata of
\* another message.
\* ------------------------------------------------------------------------
C9_PartUsesOwnMetadata ==
    [][\A part \in Parts, messageID \in MessageIds :
        (/\ PartUpdated(part, messageID)
         /\ part.type = "tool"
         /\ Len(messages') = Len(messages) + 1)
        => messages'[Len(messages')].content \in
              {GetContextualToolStatus(part, <<>>),
               GetContextualToolStatus(part, <<Metadata(messageID)>>)}]_vars

\* ------------------------------------------------------------------------
\* C10: when sendMessage resolves, 'Processing tools...' is emitted if and
\* only if the response has a tool part and no stream event arrived while
\* the send was outstanding.
\* ------------------------------------------------------------------------
C10_ProcessingToolsIff ==
    [][\A i \in 1..MaxSends, hasTools \in BOOLEAN :
        (/\ SendResolve(i, hasTools)
         /\ lastStatusMessage # ProcessingTools)
        => ((lastStatusMessage' = ProcessingTools)
               <=> (hasTools /\ ~sends[i].eventSeen))]_vars

\* ------------------------------------------------------------------------
\* C11: handling message.updated caches the metadata of the message; a
\* completed message sets loading to false and appends no status; otherwise
\* an active tool part makes it emit the overall tool status of the parts,
\* else a message with tool parts makes it emit 'Completed N tool(s)' with N
\* the number of completed tool parts, and with no tool part it emits
\* nothing.
\* ------------------------------------------------------------------------
C11_MessageUpdatedStatus ==
    [][\A info \in Infos :
        MessageUpdated(info)
        => /\ currentMessageMetadata' = <<info.metadata>>
           /\ IF info.completed
              THEN /\ isLoading' = FALSE
                   /\ messages' = messages
                   /\ lastStatusMessage' = lastStatusMessage
              ELSE LET emitted ==
                        IF \E k \in 1..Len(info.parts) :
                              /\ info.parts[k].type = "tool"
                              /\ StatusOf(info.parts[k]) # "completed"
                        THEN <<GetOverallToolStatus(info.parts)>>
                        ELSE IF CountToolParts(info.parts) > 0
                        THEN <<CompletedTools(CountCompleted(info.parts))>>
                        ELSE <<>>
                       st == IF emitted = <<>> THEN Store
                             ELSE AddStatusMessage(Store, emitted[1], now)
                   IN /\ messages' = st.messages
                      /\ lastStatusMessage' = st.lastStatusMessage
                      /\ isLoading' = isLoading]_vars

\* message.updated for a message with an active tool part, during a turn,
\* appended the overall tool status
C11_Witness ==
    /\ lastOp.op = "message.updated"
    /\ isLoading
    /\ currentMessageMetadata = <<Metadata(<<"m1">>)>>
    /\ messages # <<>>
    /\ messages[Len(messages)].type = "event"
    /\ messages[Len(messages)].content = <<"Read">>

\* ------------------------------------------------------------------------
\* C12: when sendMessage rejects, exactly one error message 'Failed to send
\* message - <error>' is appended after the messages already there (the
\* user message of the turn among them), loading becomes false, and the
\* guard of a following submit lets it through.
\* ------------------------------------------------------------------------
C12_SendFailure ==
    [][\A i \in 1..MaxSends, err \in RejectTexts :
        SendReject(i, err)
        => /\ Len(messages') = Len(messages) + 1
           /\ SubSeq(messages', 1, Len(messages)) = messages
           /\ \E k \in 1..Len(messages) : messages[k].type = "user"
           /\ messages'[Len(messages')].type = "error"
           /\ messages'[Len(messages')].content =
                 <<"Failed to send message - ", "Error: ">> \o err
           /\ isLoading' = FALSE
           /\ sessionId' # "null"
           /\ ~isInitializing'
           /\ Len(sends') = Len(sends) - 1]_vars

\* a submit was accepted after a send had failed
C12_Witness ==
    /\ lastOp = [op |-> "submit", arg |-> <<TRUE>>]
    /\ isLoading
    /\ Len(messages) >= 3
    /\ messages[Len(messages)].type = "user"
    /\ messages[Len(messages) - 1].type = "error"
    /\ StartsWith(messages[Len(messages) - 1].content,
                  <<"Failed to send message - ">>)

\* ------------------------------------------------------------------------
\* C13: a frame whose data is not valid JSON is dropped: onmessage does not
\* throw, invokes no callback, leaves the connection, the listeners and
\* reconnectAttempts as they are and schedules no reconnect.
\* ------------------------------------------------------------------------
InvalidJson == {<<"{", t>> : t \in FrameTypes} \cup {<<>>}

C13_MalformedFrameDropped ==
    [][\A data \in InvalidJson :
        OnMessage(data)
        => /\ ~delivered'.thrown
           /\ delivered'.calls = <<>>
           /\ UNCHANGED <<eventSource, liveSources, listeners,
                          reconnectAttempts, timers>>]_vars

\* a truncated frame was handled on an open connection that has a callback
\* for its type, while a reconnect timer of an earlier failure is pending
C13_Witness ==
    /\ delivered.frame = <<"{", "session.idle">>
    /\ eventSource = "open"
    /\ listeners["session.idle"] # <<>>
    /\ timers # <<>>

C15_UnsubscribeExact ==
    [][\A k \in 1..MaxUnsubs :
        Unsubscribe(k)
        => IF unsubs[k].called
           THEN listeners' = listeners
           ELSE \A t \in EventTypes :
                    t # unsubs[k].eventType => listeners'[t] = listeners[t]]_vars

\* ------------------------------------------------------------------------
\* C16: disconnect() leaves no connection (none open, none connecting), an
\* empty listener registry and reconnectAttempts = 0; a frame reaches a
\* callback only on an open connection made by a later connect() and
\* through a registration made by a later subscribe().
\* ------------------------------------------------------------------------
C16_DisconnectClears ==
    [][/\ Disconnect
          => /\ eventSource' = "null"
             /\ liveSources' = 0
             /\ listeners' = NoListeners
             /\ reconnectAttempts' = 0
       /\ \A data \in Frames :
            (OnMessage(data) /\ delivered'.calls # <<>>)
            => /\ eventSource = "open"
               /\ liveSources = 1
               /\ \E t \in EventTypes :
                    /\ listeners[t] # <<>>
                    /\ Len(listeners[t]) = Len(delivered'.calls)
                    /\ \A i \in 1..Len(delivered'.calls) :
                          delivered'.calls[i].callback = listeners[t][i]]_vars

\* disconnect() ran after a frame had been dispatched: the connection is
\* gone and the registration is cleared although its unsubscribe function
\* was never called
C16_Witness ==
    /\ eventSource = "null"
    /\ liveSources = 0
    /\ listeners = NoListeners
    /\ reconnectAttempts = 0
    /\ Len(unsubs) = 1
    /\ ~unsubs[1].called
    /\ delivered.calls # <<>>

\* ------------------------------------------------------------------------
\* C17: at every moment at most one EventSource created by the service is
\* open or connecting, and it is the one the service holds; connect() on an
\* existing connection closes it first, also when reconnect timers fire one
\* after another.
\* ------------------------------------------------------------------------
C17_AtMostOneSource ==
    /\ liveSources \in {0, 1}
    /\ liveSources = 1 <=> IsLive(eventSource)

\* two reconnect timers have fired one after another, each calling connect()
\* on a source that was still connecting
C17_Witness ==
    /\ Len(schedLog) >= 2
    /\ failures = Len(schedLog)
    /\ timers = <<>>
    /\ eventSource = "connecting"
    /\ liveSources = 1

\* ------------------------------------------------------------------------
\* C18: the state recorded for a tool part only moves forward along
\* pending -> running -> {completed | error}: a part update never moves the
\* recorded state of a part back, and an update that would move a completed
\* or failed part back to pending or running leaves the record as it was.
\* ------------------------------------------------------------------------
LifecycleRank(status) ==
    CASE status = "pending" -> 0
      [] status = "running" -> 1
      [] OTHER -> 2

\* a move from one state to another that does not go back along the
\* lifecycle (completed and error are both its end)
LifecycleForward(from, to) == LifecycleRank(from) <= LifecycleRank(to)

C18_ToolPartForwardOnly ==
    [][\A part \in V2ToolParts :
         HandlePartUpdated(part) =>
            \A i \in 1..Len(v2Messages) :
               \A j \in 1..Len(v2Messages[i].parts) :
                  v2Messages[i].parts[j].type = "tool" =>
                     LifecycleForward(StatusOf(v2Messages[i].parts[j]),
                                      StatusOf(v2Messages'[i].parts[j]))]_vars

\* ------------------------------------------------------------------------
\* C19: a turn from end to end. An accepted submit of 'hello' leaves a user
\* message 'hello' in the transcript; a message.part.updated event with the
\* text part 'Hi there' of message m1 leaves an assistant message 'Hi there'
\* as the last message of the transcript, after the messages that were
\* there; a message.updated event whose message has time.completed set
\* leaves loading false and the transcript as it was.
\* ------------------------------------------------------------------------
C19_EndToEndTurn ==
    [][/\ (Submit(<<"hello">>) /\ ~SubmitIgnored(<<"hello">>, rendered))
            => \E k \in 1..Len(messages') :
                  /\ messages'[k].type = "user"
                  /\ messages'[k].content = <<"hello">>
       /\ PartUpdated(TextPart(<<"Hi there">>), <<"m1">>)
            => LET n == Len(messages')
               IN /\ n > 0
                  /\ messages'[n].type = "assistant"
                  /\ messages'[n].content = <<"Hi there">>
                  /\ n - 1 <= Len(messages)
                  /\ SubSeq(messages', 1, n - 1) = SubSeq(messages, 1, n - 1)
       /\ \A info \in TurnInfos :
            (MessageUpdated(info) /\ info.completed)
               => /\ isLoading' = FALSE
                  /\ messages' = messages]_vars

\* the turn has run while its send is still outstanding: the transcript is
\* the user message and the reply, and the completed message.updated was the
\* last thing handled
C19_Witness ==
    /\ lastOp.op = "message.updated"
    /\ sends # <<>>
    /\ ~isLoading
    /\ Len(messages) = 2
    /\ messages[1].type = "user"
    /\ messages[1].content = <<"hello">>
    /\ messages[2].type = "assistant"
    /\ messages[2].id = <<"m1">>
    /\ messages[2].content = <<"Hi there">>

\* ------------------------------------------------------------------------
\* C20: stream events are handled while a sendMessage call is outstanding.
\* With a send in flight, session.error appends its error message,
\* message.updated caches the metadata and ends loading when the message is
\* completed, message.part.updated leaves its text as the last assistant
\* message, and session.idle sets idle, ends loading and removes a trailing
\* '...' status. When a send settles, the messages of the transcript stay
\* where they were and as they were, idle keeps its value, the cached
\* metadata stay, and loading is false.
\* ------------------------------------------------------------------------
C20_EventsDuringSend ==
    [][/\ \A msg \in ErrorTexts :
            (SessionError(msg) /\ sends # <<>>)
               => /\ Len(messages') = Len(messages) + 1
                  /\ SubSeq(messages', 1, Len(messages)) = messages
                  /\ messages'[Len(messages')].type = "error"
                  /\ messages'[Len(messages')].content = msg
       /\ \A info \in TurnInfos :
            (MessageUpdated(info) /\ sends # <<>>)
               => /\ currentMessageMetadata' = <<info.metadata>>
                  /\ info.completed => ~isLoading'
       /\ (PartUpdated(TextPart(<<"Hi there">>), <<"m1">>) /\ sends # <<>>)
            => /\ messages' # <<>>
               /\ messages'[Len(messages')].type = "assistant"
               /\ messages'[Len(messages')].content = <<"Hi there">>
       /\ (SessionIdle("s1") /\ sends # <<>>)
            => /\ isIdle'
               /\ ~isLoading'
               /\ messages' = RemoveLastEventMessage(Store).messages
       /\ \A i \in 1..MaxSends :
            (\/ \E hasTools \in BOOLEAN : SendResolve(i, hasTools)
             \/ \E err \in RejectTexts : SendReject(i, err))
               => /\ Len(messages') >= Len(messages)
                  /\ SubSeq(messages', 1, Len(messages)) = messages
                  /\ isIdle' = isIdle
                  /\ ~isLoading'
                  /\ currentMessageMetadata' = currentMessageMetadata
                  /\ hasReceivedFirstEvent' = hasReceivedFirstEvent]_vars

\* the only send of the transcript has resolved after the reply and
\* session.idle had arrived: the reply is still there and idle is still set
C20_Witness ==
    /\ lastOp.op = "send.resolve"
    /\ sends = <<>>
    /\ isIdle
    /\ ~isLoading
    /\ Len(messages) = 2
    /\ messages[1].type = "user"
    /\ messages[2].type = "assistant"
    /\ messages[2].content = <<"Hi there">>

\* ------------------------------------------------------------------------
\* C21: when createSession rejects, the store holds the error 'Failed to
\* initialize session - <message>' (the message of the Error, 'Unknown
\* error' for a value that is not an Error), isInitializing is false and
\* sessionId is still null; the transcript and the hook state are left as
\* they were. A submit made while sessionId is null is ignored: it changes
\* neither the transcript nor the loading and idle flags and sends nothing.
\* ------------------------------------------------------------------------
C21_InitFailure ==
    [][/\ \A i \in 1..MaxCreating, err \in Rejections :
            CreateSessionReject(i, err)
               => /\ error' = <<"Failed to initialize session - ">>
                                 \o (IF err.isError THEN err.message
                                     ELSE <<"Unknown error">>)
                  /\ ~isInitializing'
                  /\ sessionId' = "null"
                  /\ UNCHANGED <<msgVars, hookVars>>
       /\ \A userInput \in UserTexts \cup {Empty} :
            (Submit(userInput) /\ sessionId = "null")
               => UNCHANGED <<msgVars, sessVars, hookVars, esVars>>]_vars

\* after the failure was rendered (the error is in the transcript) a submit
\* was made and ignored
C21_Witness ==
    /\ lastOp = [op |-> "submit", arg |-> <<FALSE>>]
    /\ sessionId = "null"
    /\ ~isInitializing
    /\ error = <<"Failed to initialize session - ", "Network error">>
    /\ creating = <<>>
    /\ rendered = Current
    /\ sends = <<>>
    /\ ~isLoading
    /\ Len(messages) = 1
    /\ messages[1].type = "error"

\* ------------------------------------------------------------------------
\* C22: two consecutive calls addTextMessage(t1, id); addTextMessage(t2, id).
\* As stated, from every transcript they add exactly one assistant message
\* with that id and content t2 and leave every message that was there
\* unchanged.
\* ------------------------------------------------------------------------
EndsWithAssistant(msgs, id) ==
    /\ msgs # <<>>
    /\ msgs[Len(msgs)].type = "assistant"
    /\ msgs[Len(msgs)].id = id

\* the second of two consecutive addTextMessage calls for the same id
SecondAddText(text, id) ==
    /\ CallAddTextMessage(text, id)
    /\ lastOp.op = "addTextMessage"
    /\ lastOp.arg[1][2] = id

C22_TwoCallsAddOne ==
    [][\A text \in ReplyTexts, id \in MessageIds :
        SecondAddText(text, id)
        => LET before == lastOp.arg[2]
           IN /\ Len(messages') = Len(before) + 1
              /\ SubSeq(messages', 1, Len(before)) = before
              /\ EndsWithAssistant(messages', id)
              /\ messages'[Len(messages')].content = text]_vars

\* C22 as the code keeps it: after the two calls the transcript ends with
\* an assistant message with that id and content t2. When the transcript
\* did not end with an assistant message of that id, this is the one message
\* added and all messages that were there are unchanged; when it did, no
\* message is added, that last message is the one rewritten and all
\* messages before it are unchanged.
C22_TwoCallsLeaveOne ==
    [][\A text \in ReplyTexts, id \in MessageIds :
        SecondAddText(text, id)
        => LET before == lastOp.arg[2]
               kept == IF EndsWithAssistant(before, id)
                       THEN Len(before) - 1 ELSE Len(before)
           IN /\ Len(messages') = kept + 1
              /\ SubSeq(messages', 1, kept) = SubSeq(before, 1, kept)
              /\ EndsWithAssistant(messages', id)
              /\ messages'[Len(messages')].content = text]_vars

\* two consecutive calls with different texts ran on a transcript that
\* ended with a user message: one reply was added, with the second text
C22_Witness ==
    /\ lastOp.op = "addTextMessage"
    /\ lastOp.arg[1] = <<<<"Hi there">>, <<"m1">>>>
    /\ Len(lastOp.arg[2]) = 2
    /\ lastOp.arg[2][2].content = <<"Hi">>
    /\ Len(messages) = 2
    /\ messages[1].type = "user"
    /\ messages[2].type = "assistant"
    /\ messages[2].content = <<"Hi there">>

\* ------------------------------------------------------------------------
\* C23: two consecutive calls addStatusMessage(s); addStatusMessage(s). As
\* stated, from every store state they append exactly one event message
\* with content s in total and leave lastStatusMessage equal to s.
\* ------------------------------------------------------------------------
\* the second of two consecutive addStatusMessage calls with the same text
SecondAddStatus(status) ==
    /\ CallAddStatusMessage(status)
    /\ lastOp.op = "addStatusMessage"
    /\ lastOp.arg[1] = <<status>>

C23_TwoCallsAppendOne ==
    [][\A status \in StatusTexts :
        SecondAddStatus(status)
        => LET before == lastOp.arg[2]
           IN /\ Len(messages') = Len(before) + 1
              /\ SubSeq(messages', 1, Len(before)) = before
              /\ messages'[Len(messages')].type = "event"
              /\ messages'[Len(messages')].content = status
              /\ lastStatusMessage' = status]_vars

\* C23 as the code keeps it: the two calls append exactly one event message
\* with content s when lastStatusMessage was not s before the first call,
\* and none when it was; the messages that were there are unchanged and
\* lastStatusMessage is s afterwards.
C23_TwoCallsAppendAtMostOne ==
    [][\A status \in StatusTexts :
        SecondAddStatus(status)
        => LET before == lastOp.arg[2]
               marker == lastOp.arg[3]
           IN /\ SubSeq(messages', 1, Len(before)) = before
              /\ IF marker = status
                 THEN messages' = before
                 ELSE /\ Len(messages') = Len(before) + 1
                      /\ messages'[Len(messages')].type = "event"
                      /\ messages'[Len(messages')].content = status
              /\ lastStatusMessage' = status]_vars

\* the two calls ran on a store whose marker held another text: the second
\* call found the transcript the first had extended and appended nothing
C23_Witness ==
    /\ lastOp.op = "addStatusMessage"
    /\ lastOp.arg[1] = <<ProcessingTools>>
    /\ lastOp.arg[3] = ProcessingTools
    /\ lastOp.arg[2] = messages
    /\ lastStatusMessage = ProcessingTools
    /\ Len(messages) = 2
    /\ messages[1].content = <<"Plan">>
    /\ messages[2].type = "event"
    /\ messages[2].content = ProcessingTools

\* ------------------------------------------------------------------------
\* C24: isMessageStreaming(message, sessionIdle) is false when the message
\* has a completion timestamp or sessionIdle is true; otherwise it is true
\* exactly when some tool part has a status other than completed or the
\* last part is a step-start.
\* ------------------------------------------------------------------------
HasCompletionTime(message) == message.metadata.time.completed # <<>>

SomeToolNotCompleted(parts) ==
    \E i \in 1..Len(parts) :
        /\ parts[i].type = "tool"
        /\ parts[i].state[1].status \in {"pending", "running", "error"}

LastIsStepStart(parts) ==
    Len(parts) > 0 /\ parts[Len(parts)] = StepStartPart

C24_IsMessageStreaming ==
    call.fn = "isMessageStreaming"
    => LET message == call.args[1]
           sessionIdle == call.args[2]
       IN IF HasCompletionTime(message) \/ sessionIdle
          THEN call.result = FALSE
          ELSE call.result = (\/ SomeToolNotCompleted(message.parts)
                              \/ LastIsStepStart(message.parts))

\* a message that is not completed, in a session that is not idle, whose
\* tools have all completed but which ends with a step-start, is streaming
C24_Witness ==
    /\ call.fn = "isMessageStreaming"
    /\ call.args = <<StreamMessage(<<CompletedRead, StepStartPart>>, <<>>),
                     FALSE>>
    /\ call.result = TRUE

\* ------------------------------------------------------------------------
\* C25: the streaming status text of a message is 'Complete' when the
\* message is complete (completion timestamp or idle session); otherwise
\* 'Executing tools... (Step N)' when tool execution is active (some tool
\* part has not completed), N being the number of step-start parts; and
\* 'Thinking...' otherwise.
\* ------------------------------------------------------------------------
C25_StreamingStatusText ==
    call.fn = "getStreamingStatusText"
    => LET message == call.args[1]
           sessionIdle == call.args[2]
           steps == Cardinality({i \in 1..Len(message.parts) :
                                    message.parts[i] = StepStartPart})
       IN call.result =
            IF HasCompletionTime(message) \/ sessionIdle
            THEN <<"Complete">>
            ELSE IF SomeToolNotCompleted(message.parts)
            THEN <<"Executing tools... (Step ", steps, ")">>
            ELSE <<"Thinking...">>

\* ------------------------------------------------------------------------
\* C26: shouldShowTypingIndicator(message, sessionIdle) is true only while
\* the message is streaming and (it has no text or tool part yet, or its
\* last part is a step-start), and it is true in all these cases; it is
\* false for every message with a completion timestamp and whenever
\* sessionIdle is true.
\* ------------------------------------------------------------------------
NoTextOrToolPart(parts) ==
    \A i \in 1..Len(parts) : parts[i].type \notin {"text", "tool"}

C26_TypingIndicator ==
    call.fn = "shouldShowTypingIndicator"
    => LET message == call.args[1]
           sessionIdle == call.args[2]
           streaming == /\ ~HasCompletionTime(message)
                        /\ ~sessionIdle
                        /\ \/ SomeToolNotCompleted(message.parts)
                           \/ LastIsStepStart(message.parts)
       IN /\ call.result = (/\ streaming
                            /\ \/ NoTextOrToolPart(message.parts)
                               \/ LastIsStepStart(message.parts))
          /\ HasCompletionTime(message) => call.result = FALSE
          /\ sessionIdle => call.result = FALSE

\* a streaming message that already has a text part and ends with a
\* step-start shows the indicator
C26_Witness ==
    /\ call.fn = "shouldShowTypingIndicator"
    /\ call.args = <<StreamMessage(<<TextPart(<<"Hi there">>), StepStartPart>>,
                                   <<>>), FALSE>>
    /\ call.result = TRUE

\* ------------------------------------------------------------------------
\* C27: getContextualToolStatus(part, metadata), for every tool part, with
\* and without metadata: for pending the action message of the tool
\* ('Working...' for a tool name that is not known); for running the
\* contextual title, which for read, edit and write is the display name, a
\* space and the relative path of args.filePath against the cwd of the
\* metadata; for completed the check mark and '<displayName> completed'; for
\* error '<displayName>: ' and the error text, 'Error' when there is none.
\* ------------------------------------------------------------------------
C27_ContextualToolStatus ==
    call.fn = "getContextualToolStatus"
    => LET part == call.args[1]
           toolState == part.state[1]
           cwd == IF call.args[2] = <<>> THEN Empty ELSE call.args[2][1].cwd
           name == GetToolDisplayName(part.tool)
       IN /\ toolState.status = "pending"
              => /\ call.result = GetToolActionMessage(part.tool)
                 /\ part.tool \in {"frob", "mcp_my_tool"}
                       => call.result = <<"Working", ".", ".", ".">>
          /\ toolState.status = "running"
              => /\ call.result = GetToolTitle(part.tool, toolState.args, cwd)
                 /\ part.tool \in {"read", "edit", "write"}
                       => call.result =
                             name \o <<" ">> \o
                             GetRelativePath(toolState.args.filePath, cwd)
          /\ toolState.status = "completed"
              => call.result = <<CheckMark>> \o name \o <<" completed">>
          /\ toolState.status = "error"
              => call.result =
                    name \o <<": ">> \o
                    (IF toolState.error = Empty THEN <<"Error">>
                     ELSE toolState.error)

\* a running read of /r/s/A with the cached cwd /r gives 'Read s/A'
C27_Witness ==
    /\ call.fn = "getContextualToolStatus"
    /\ call.args = <<RunningRead, <<Metadata(<<"m1">>)>>>>
    /\ call.result = <<"Read", " ", "s", "/", "A">>

\* ------------------------------------------------------------------------
\* C28: getRelativePath(filePath, serverCwd) never returns the empty
\* string; it returns 'file' when filePath is absent; the last path segment
\* of filePath when serverCwd is absent or filePath does not start with
\* serverCwd; and otherwise filePath with the serverCwd prefix and one
\* separator stripped. A path whose last segment is empty (it ends with a
\* separator) may give any non-empty text, and so may a path that is the
\* working directory itself; a path that starts with the characters of
\* serverCwd without lying below it may give its last segment.
\* ------------------------------------------------------------------------
C28_RelativePath ==
    call.fn = "getRelativePath"
    => LET filePath == call.args[1]
           serverCwd == call.args[2]
           segment == LastSegment(filePath)
           below == /\ Len(filePath) > Len(serverCwd)
                    /\ filePath[Len(serverCwd) + 1] = "/"
       IN /\ call.result # Empty
          /\ filePath = Empty => call.result = <<"file">>
          /\ (/\ filePath # Empty
              /\ segment # Empty
              /\ serverCwd = Empty \/ ~StartsWith(filePath, serverCwd))
                => call.result = segment
          /\ (/\ filePath # Empty
              /\ serverCwd # Empty
              /\ StartsWith(filePath, serverCwd)
              /\ Len(filePath) > Len(serverCwd) + 1)
                => IF below
                   THEN serverCwd \o <<"/">> \o call.result = filePath
                   ELSE segment # Empty => call.result = segment

\* ------------------------------------------------------------------------
\* C29: the todo phase. Arguments that fail the {todos: TodoItem[]} shape
\* check give 'Plan'. Otherwise, when some todo is in_progress the result is
\* 'Working on: ' and the content of the first such todo in array order,
\* whatever the completion ratio; else when 0 < completed < total it is
\* 'Completed: <completed>/<total>'; else (an empty list, none completed or
\* all completed) it is 'Plan'.
\* ------------------------------------------------------------------------
C29_TodoPhase ==
    call.fn = "getTodoPhase"
    => LET args == call.args[1]
           shape == /\ args.todos # <<>>
                    /\ \A i \in 1..Len(args.todos[1]) :
                          args.todos[1][i].wellFormed
           todos == args.todos[1]
           total == Len(todos)
           IsFirstActive(i) ==
               /\ todos[i].status = "in_progress"
               /\ \A j \in 1..(i - 1) : todos[j].status # "in_progress"
           done == Cardinality({i \in 1..total :
                                  todos[i].status = "completed"})
       IN IF ~shape THEN call.result = <<"Plan">>
          ELSE IF \E i \in 1..total : todos[i].status = "in_progress"
          THEN \E i \in 1..total :
                  /\ IsFirstActive(i)
                  /\ call.result = <<"Working on: ">> \o todos[i].content
          ELSE IF 0 < done /\ done < total
          THEN call.result = <<"Completed: ", done, "/", total>>
          ELSE /\ call.result = <<"Plan">>
               /\ total = 0 \/ done = 0 \/ done = total

\* with one todo completed and two in progress, the first one in progress
\* is named and the ratio 1/3 is not shown
C29_Witness ==
    /\ call.fn = "getTodoPhase"
    /\ call.args[1].todos = <<<<TodoItem(<<"A">>, "completed"),
                                TodoItem(<<"B">>, "in_progress"),
                                TodoItem(<<"A">>, "in_progress")>>>>
    /\ call.result = <<"Working on: ", "B">>

\* C30: subscriptions survive automatic reconnection: when a reconnect timer
\* re-runs connect(), every callback registered before is still registered,
\* and every frame that arrives on the new connection is dispatched to the
\* same callbacks as it would have been before the timer fired.
C30_SubscriptionsSurviveReconnect ==
    [][\A i \in 1..MaxTimers :
         TimerFire(i)
         => /\ \A t \in EventTypes : listeners'[t] = listeners[t]
            /\ \A data \in Frames :
                 OnMessageFields(listeners', data).calls
                 = OnMessageFields(listeners, data).calls]_vars

\* C31: after disconnect() no connection is opened unless the owner calls
\* connect() again: a reconnect timer that was scheduled by a transport error
\* before the disconnect opens no EventSource when it fires. The service
\* holds no EventSource (eventSource is null) with a timer pending only when
\* disconnect() ran after the timer was set and connect() has not run since.
C31_NoReopenAfterDisconnect ==
    [][\A i \in 1..MaxTimers :
         (eventSource = "null" /\ TimerFire(i))
         => /\ eventSource' = "null"
            /\ liveSources' = liveSources]_vars

\* C32: the hook keeps its connection and its subscriptions in place while
\* events are processed: the re-render that follows the handling of a
\* message.updated or message.part.updated event, with the session id as it
\* was at the last render, neither closes nor replaces the EventSource and
\* leaves the registry as it is.
C32_EventHandlingKeepsStream ==
    [][(/\ lastOp.op \in {"message.updated", "message.part.updated"}
        /\ rendered.sessionId = sessionId
        /\ Render)
       => /\ eventSource' = eventSource
          /\ liveSources' = liveSources
          /\ listeners' = listeners]_vars

\* C33: provided every sendMessage call eventually resolves or rejects, every
\* accepted submit eventually returns the loading state to false: whenever
\* isLoading is true it is false again later, whether or not a stream event
\* arrives.
C33_LoadingEventuallyFalse == isLoading ~> ~isLoading

\* a send settled and loading is false with no stream event handled since
\* the submit
C33_Witness ==
    /\ lastOp.op = "send.resolve"
    /\ ~hasReceivedFirstEvent
    /\ sends = <<>>
    /\ ~isLoading
    /\ \E i \in 1..Len(messages) : messages[i].type = "user"

\* C34: after clearSession() the session id stays null until an
\* initializeSession() issued after the clear succeeds: when a createSession
\* call that was in flight at a clearSession() resolves, the session id is
\* left as it is.
C34_StaleCreateIgnored ==
    [][\A i \in 1..MaxCreating, id \in SessionIds :
         (/\ i <= Len(creating)
          /\ creating[i]
          /\ CreateSessionResolve(i, id))
         => sessionId' = sessionId]_vars

\* C35: in the V2 store fed by handleMessageUpdated, handlePartUpdated and
\* handleMessageRemoved from the empty store, every message id occurs at
\* most once and every part id at most once within its message;
\* handleMessageUpdated for a stored id replaces the info at its position
\* and keeps the parts, for a new id it appends a message without parts;
\* handlePartUpdated for a stored part id of a stored message replaces that
\* part at its position, a new part id is appended at the end of the parts,
\* and the other messages stay as they are.
C35_IdsUniqueMergeInPlace ==
    [][/\ \A i, j \in 1..Len(v2Messages') :
            v2Messages'[i].info.id = v2Messages'[j].info.id => i = j
       /\ \A i \in 1..Len(v2Messages') :
            \A j, k \in 1..Len(v2Messages'[i].parts) :
               v2Messages'[i].parts[j].id = v2Messages'[i].parts[k].id => j = k
       /\ \A info \in V2Infos :
            HandleMessageUpdated(info)
            => IF \E i \in 1..Len(v2Messages) : v2Messages[i].info.id = info.id
               THEN /\ Len(v2Messages') = Len(v2Messages)
                    /\ \A i \in 1..Len(v2Messages) :
                         v2Messages'[i] =
                            IF v2Messages[i].info.id = info.id
                            THEN [info |-> info, parts |-> v2Messages[i].parts]
                            ELSE v2Messages[i]
               ELSE v2Messages' =
                       v2Messages \o <<[info |-> info, parts |-> <<>>]>>
       /\ \A part \in V2EventParts :
            HandlePartUpdated(part)
            => /\ Len(v2Messages') = Len(v2Messages)
               /\ \A i \in 1..Len(v2Messages) :
                    LET old == v2Messages[i].parts
                        new == v2Messages'[i].parts
                    IN /\ v2Messages'[i].info = v2Messages[i].info
                       /\ IF v2Messages[i].info.id # part.messageID
                          THEN new = old
                          ELSE IF \E k \in 1..Len(old) : old[k].id = part.id
                          THEN /\ Len(new) = Len(old)
                               /\ \A k \in 1..Len(old) :
                                    new[k] = IF old[k].id = part.id
                                             THEN part ELSE old[k]
                          ELSE new = old \o <<part>>]_vars

\* two messages are stored; the second holds the parts p1 and p2 in the
\* order they were first seen, p1 replaced by its completed state
C35_Witness ==
    /\ Len(v2Messages) = 2
    /\ v2Messages[1].info = V2Info(<<"m2">>, "assistant", TRUE)
    /\ v2Messages[2].info.id = <<"m1">>
    /\ v2Messages[2].parts = <<V2ToolPart(<<"p1">>, <<"m1">>, "completed"),
                               V2ToolPart(<<"p2">>, <<"m1">>, "pending")>>

\* C36: handlePartUpdated for a part whose messageID matches no stored
\* message leaves the messages as they are, and the part is not kept for
\* later: a handleMessageUpdated that then stores a message of that id stores
\* it without parts.
C36_OrphanPartDropped ==
    [][/\ \A part \in V2EventParts :
            (/\ \A i \in 1..Len(v2Messages) :
                   v2Messages[i].info.id # part.messageID
             /\ HandlePartUpdated(part))
            => v2Messages' = v2Messages
       /\ \A info \in V2Infos :
            (/\ info.id \in droppedFor
             /\ \A i \in 1..Len(v2Messages) : v2Messages[i].info.id # info.id
             /\ HandleMessageUpdated(info))
            => /\ Len(v2Messages') = Len(v2Messages) + 1
               /\ v2Messages'[Len(v2Messages')].info = info
               /\ v2Messages'[Len(v2Messages')].parts = <<>>]_vars

\* a part of message m1 found no message, and m1 is now stored without parts
C36_Witness ==
    /\ <<"m1">> \in droppedFor
    /\ <<"m2">> \notin droppedFor
    /\ Len(v2Messages) = 1
    /\ v2Messages[1].info.id = <<"m1">>
    /\ v2Messages[1].parts = <<>>

\* C37: removeLastEventMessage removes at most one message, only the last
\* one, and only when it is an event message whose content contains '...';
\* with an empty transcript, a last message of another type or an event
\* message without '...' the transcript is unchanged; lastStatusMessage is
\* never changed.
C37_RemoveLastEventMessage ==
    lastOp.op = "removeLastEventMessage"
    => LET before == lastOp.arg[2]
           n == Len(before)
       IN /\ lastStatusMessage = lastOp.arg[3]
          /\ IF /\ n > 0
                /\ before[n].type = "event"
                /\ \E i \in 1..(Len(before[n].content) - 2) :
                      /\ before[n].content[i] = "."
                      /\ before[n].content[i + 1] = "."
                      /\ before[n].content[i + 2] = "."
             THEN /\ Len(messages) = n - 1
                  /\ \A i \in 1..(n - 1) : messages[i] = before[i]
             ELSE messages = before

\* the status 'Processing tools...' was the last of two messages and is gone,
\* the marker still names it
C37_Witness ==
    /\ lastOp.op = "removeLastEventMessage"
    /\ Len(lastOp.arg[2]) = 2
    /\ lastOp.arg[2][2].type = "event"
    /\ lastOp.arg[2][2].content = ProcessingTools
    /\ messages = <<lastOp.arg[2][1]>>
    /\ lastStatusMessage = ProcessingTools

\* C38: shouldShowTypingIndicator(message, sessionIdle) is true exactly when
\* the message has no completion timestamp, sessionIdle is false and the
\* last part of the message is a step-start; it is false for a message
\* without parts, and a message with no text or tool part whose last part is
\* not a step-start never shows the indicator.
C38_TypingIndicatorExactly ==
    call.fn = "shouldShowTypingIndicator"
    => LET message == call.args[1]
           sessionIdle == call.args[2]
           n == Len(message.parts)
       IN /\ call.result = (/\ message.metadata.time.completed = <<>>
                            /\ ~sessionIdle
                            /\ n > 0
                            /\ message.parts[n].type = "step-start")
          /\ n = 0 => call.result = FALSE
          /\ (/\ \A i \in 1..n : message.parts[i].type \notin {"text", "tool"}
              /\ n > 0 => message.parts[n].type # "step-start")
             => call.result = FALSE

\* a message in progress with nothing to display yet, whose step has
\* finished, does not show the indicator
C38_Witness ==
    /\ call.fn = "shouldShowTypingIndicator"
    /\ call.args = <<StreamMessage(<<StepStartPart, StepFinishPart>>, <<>>),
                     FALSE>>
    /\ call.result = FALSE

\* C39: for every non-empty filePath and serverCwd such that filePath starts
\* with serverCwd, getRelativePath returns filePath itself or a text r with
\* serverCwd + '/' + r = filePath: no character of a path segment is lost.
C39_RelativePathKeepsSegments ==
    (/\ call.fn = "getRelativePath"
     /\ call.args[1] # Empty
     /\ call.args[2] # Empty
     /\ Len(call.args[2]) <= Len(call.args[1])
     /\ \A i \in 1..Len(call.args[2]) : call.args[1][i] = call.args[2][i])
    => \/ call.result = call.args[1]
       \/ call.args[2] \o <<"/">> \o call.result = call.args[1]

====
